---- MODULE Spec2Model ----
(***************************************************************************)
(* Model of the projection mapper: the App component (mesh state,          *)
(* undo/redo history refs, persistence, cue cursor), the MeshWarpEditor    *)
(* drag handlers that feed it, the useMeshHistory hook, and the            *)
(* PlaybackScreen controller with its key capture.                         *)
(*                                                                         *)
(* Numbers: mesh coordinates are JavaScript doubles produced by one        *)
(* division of two small integers (c/(cols-1), clampedX/width).  They are  *)
(* modelled as reduced fractions <<n, d>>: two such quotients are the same *)
(* double exactly when the fractions are equal.  Array indexes stay        *)
(* 0-based as in the source; a TLA+ sequence is read at index + 1.         *)
(***************************************************************************)
EXTENDS Integers, Sequences, FiniteSets, TLC

\* ------------------------------------------------------ program constants
DEFAULT_ROWS == 4
DEFAULT_COLS == 4
MAX_HISTORY == 30
HOOK_MAX_HISTORY == 50
HANDLE_RADIUS == 12
HANDLE_HIT_SLOP == 20

\* null for a point id, an unknown viewport, an absent storage item.
NULL == "null"
NoSize == [known |-> FALSE, width |-> 0, height |-> 0]
NoItem == [present |-> FALSE, text |-> <<>>]

\* ------------------------------------------------------------- arithmetic
Abs(n) == IF n < 0 THEN -n ELSE n

RECURSIVE GCD(_, _)
GCD(a, b) == IF b = 0 THEN a ELSE GCD(b, a % b)

\* The doubles that are no fraction: 0/0 and n/0.
NaN == <<0, 0>>
Infinity == <<1, 0>>

\* The double n/d (d >= 0), as a reduced fraction; a division by zero
\* gives NaN or an infinity and does not throw.
Frac(n, d) ==
  LET g == GCD(Abs(n), d) IN
  IF d = 0 THEN (IF n = 0 THEN NaN ELSE IF n > 0 THEN Infinity ELSE <<-1, 0>>)
  ELSE IF n = 0 THEN <<0, 1>> ELSE <<n \div g, d \div g>>

RatLt(a, b) == a[1] * b[2] < b[1] * a[2]

MathMax(a, b) == IF a > b THEN a ELSE b
MathMin(a, b) == IF a < b THEN a ELSE b

\* ------------------------------------------------------------ mesh model
\* Template literal `${r}-${c}`.
PointId(r, c) == ToString(r) \o "-" \o ToString(c)

\* Mutation: the spacing divides by cols and rows.
RECURSIVE buildRowWide(_, _, _, _)
buildRowWide(r, c, rows, cols) ==
  IF c >= cols THEN <<>>
  ELSE <<[id |-> PointId(r, c), x |-> Frac(c, cols), y |-> Frac(r, rows)]>>
       \o buildRowWide(r, c + 1, rows, cols)

RECURSIVE buildRow(_, _, _, _)
buildRow(r, c, rows, cols) ==
  IF c >= cols THEN <<>>
  ELSE <<[id |-> PointId(r, c), x |-> Frac(c, cols - 1), y |-> Frac(r, rows - 1)]>>
       \o buildRow(r, c + 1, rows, cols)

RECURSIVE buildRows(_, _, _)
buildRows(r, rows, cols) ==
  IF r >= rows THEN <<>>
  ELSE buildRow(r, 0, rows, cols) \o buildRows(r + 1, rows, cols)

buildDefaultMesh(rows, cols) == buildRows(0, rows, cols)

DefaultMesh == buildDefaultMesh(DEFAULT_ROWS, DEFAULT_COLS)

\* JSON.stringify of a mesh: the members id, x, y of every point in array
\* order (the spread in updatePoint keeps the key order), numbers printed as
\* decimal text, which is one text per double; NaN and the infinities are
\* printed as null.
NumberText(q) == IF q[2] = 0 THEN <<"null", 0, 0>> ELSE <<"num", q[1], q[2]>>
JSONstringify(m) ==
  [i \in 1..Len(m) |-> <<"id", m[i].id, "x", NumberText(m[i].x), "y", NumberText(m[i].y)>>]

\* JSON.parse of such a text; null is read back as null, not as a number.
JSNull == <<"null">>
NumberOfText(t) == IF t[1] = "null" THEN JSNull ELSE <<t[2], t[3]>>
\* Mutation: x and y are read from each other's field.
JSONparseSwapped(s) ==
  [i \in 1..Len(s) |-> [id |-> s[i][2], x |-> NumberOfText(s[i][6]),
                        y |-> NumberOfText(s[i][4])]]

JSONparse(s) ==
  [i \in 1..Len(s) |-> [id |-> s[i][2], x |-> NumberOfText(s[i][4]),
                        y |-> NumberOfText(s[i][6])]]

\* JSON.stringify / JSON.parse of a cue list: the loop flag is printed as
\* true or false.
CuesStringify(cues) ==
  [i \in 1..Len(cues) |->
     <<"id", cues[i].id, "loop", IF cues[i].loop THEN "true" ELSE "false">>]
\* Mutation: the stored cue list is read as an empty list.
CuesParseEmpty(s) == <<>>
CuesParse(s) == [i \in 1..Len(s) |-> [id |-> s[i][2], loop |-> s[i][4] = "true"]]

\* A stored text that is no JSON: JSON.parse throws a SyntaxError on it.
NotJSON == << <<"{">> >>
ParseThrows(item) == item.present /\ item.text = NotJSON

\* -------------------------------------------------- history (App.tsx refs)
\* arr[i] of a JavaScript array: undefined outside 0..length-1.
Undefined == <<>>
ArrayAt(arr, i) == IF i >= 0 /\ i < Len(arr) THEN arr[i + 1] ELSE Undefined

\* Mutation: the equality check is dropped, every mesh counts as changed.
MeshChangedAlways(newMesh, currentMesh) == TRUE

\* if (JSON.stringify(newMesh) === JSON.stringify(currentMesh)) return;
MeshChanged(newMesh, currentMesh) == JSONstringify(newMesh) # JSONstringify(currentMesh)

\* Mutation: the redo tail is kept.
TruncateFutureKeep(states, index) == states

\* historyRef.current.slice(0, historyIndexRef.current + 1)
TruncateFuture(states, index) == SubSeq(states, 1, index + 1)

\* Mutation: the cursor is advanced also when the oldest snapshot is dropped.
LimitHistoryAdvance(pushed, index, max) ==
  IF Len(pushed) > max
    THEN [states |-> Tail(pushed), index |-> index + 1]
    ELSE [states |-> pushed, index |-> index + 1]

\* Mutation: the oldest snapshot is never dropped.
LimitHistoryNoShift(pushed, index, max) == [states |-> pushed, index |-> index + 1]

\* push(newMesh), then shift() when the length exceeds max, else index++.
LimitHistory(pushed, index, max) ==
  IF Len(pushed) > max
    THEN [states |-> Tail(pushed), index |-> index]
    ELSE [states |-> pushed, index |-> index + 1]

\* The refs after setMesh recorded newMesh.
PushMesh(states, index, newMesh, max) ==
  LimitHistory(Append(TruncateFuture(states, index), newMesh), index, max)

\* Mutation: redo is allowed one step past the newest snapshot.
RedoPossiblePastEnd(states, index) == index < Len(states)

\* Mutation: undo steps back two snapshots.
UndoIndexSkip(index) == IF index > 1 THEN index - 2 ELSE 0

\* The guards and the moves of handleUndo / handleRedo.
UndoPossible(states, index) == index > 0
RedoPossible(states, index) == index < Len(states) - 1
UndoIndex(index) == index - 1
RedoIndex(index) == index + 1

\* Mutation: the cursor is left where it was.
ResetHistoryKeepCursor(states, index, newMesh) == [states |-> <<newMesh>>, index |-> index]

\* The refs handleResetMesh / resetHistory install.
ResetHistory(states, index, newMesh) == [states |-> <<newMesh>>, index |-> 0]

\* Mutation: canRedo compares against the length, not the last index.
CanRedoOfLength(states, index) == index < Len(states)

\* updateHistoryState (App) / the render-time flags (hook).
CanUndoOf(states, index) == index > 0
CanRedoOf(states, index) == index < Len(states) - 1

\* ------------------------------------------------ editor (MeshWarpEditor)
\* Squared pixel distance from the touch to a point drawn at
\* (point.x * width, point.y * height).  The source compares Math.sqrt of
\* this value; sqrt is increasing, so the squares are compared instead.
Dist2(point, sz, touchX, touchY) ==
  LET px == Frac(point.x[1] * sz.width, point.x[2])
      py == Frac(point.y[1] * sz.height, point.y[2])
      dxn == touchX * px[2] - px[1]
      dyn == touchY * py[2] - py[1]
  IN  <<dxn * dxn * py[2] * py[2] + dyn * dyn * px[2] * px[2],
        px[2] * px[2] * py[2] * py[2]>>

\* Mutation: a point at the same distance replaces the one found before.
RECURSIVE nearestFromLast(_, _, _, _, _, _, _)
nearestFromLast(m, i, sz, touchX, touchY, nearest, minDist2) ==
  IF i > Len(m) THEN nearest
  ELSE LET d2 == Dist2(m[i], sz, touchX, touchY) IN
       IF ~RatLt(minDist2, d2)
         THEN nearestFromLast(m, i + 1, sz, touchX, touchY, m[i].id, d2)
         ELSE nearestFromLast(m, i + 1, sz, touchX, touchY, nearest, minDist2)

\* The for-loop of findNearestPoint from point i on, carrying nearest/minDist.
RECURSIVE nearestFrom(_, _, _, _, _, _, _)
nearestFrom(m, i, sz, touchX, touchY, nearest, minDist2) ==
  IF i > Len(m) THEN nearest
  ELSE LET d2 == Dist2(m[i], sz, touchX, touchY) IN
       IF RatLt(d2, minDist2)
         THEN nearestFrom(m, i + 1, sz, touchX, touchY, m[i].id, d2)
         ELSE nearestFrom(m, i + 1, sz, touchX, touchY, nearest, minDist2)

\* Mutation: the nearest point is taken whatever its distance.
findNearestPointAny(m, sz, touchX, touchY) ==
  IF ~sz.known THEN NULL
  ELSE nearestFrom(m, 1, sz, touchX, touchY, NULL, Infinity)

findNearestPoint(m, sz, touchX, touchY) ==
  IF ~sz.known THEN NULL
  ELSE LET minDist == HANDLE_HIT_SLOP + HANDLE_RADIUS IN
       nearestFrom(m, 1, sz, touchX, touchY, NULL, <<minDist * minDist, 1>>)

\* Mutation: the touch position is not clamped to the viewport.
updatePointNoClamp(m, sz, id, touchX, touchY) ==
  [i \in 1..Len(m) |->
     IF m[i].id = id
       THEN [id |-> m[i].id, x |-> Frac(touchX, sz.width), y |-> Frac(touchY, sz.height)]
       ELSE m[i]]

\* The mesh updatePoint hands to onMeshChange.
updatePoint(m, sz, id, touchX, touchY) ==
  LET clampedX == MathMax(0, MathMin(sz.width, touchX))
      clampedY == MathMax(0, MathMin(sz.height, touchY))
  IN  [i \in 1..Len(m) |->
         IF m[i].id = id
           THEN [id |-> m[i].id, x |-> Frac(clampedX, sz.width), y |-> Frac(clampedY, sz.height)]
           ELSE m[i]]

\* ------------------------------------------------------------------ state
VARIABLES
  mesh,             \* App: useState mesh
  historyRef,       \* App: historyRef.current
  historyIndexRef,  \* App: historyIndexRef.current (0-based)
  canUndo,          \* App: useState canUndo
  canRedo,          \* App: useState canRedo
  meshLoaded,       \* App: useState meshLoaded
  storedMesh,       \* AsyncStorage item MESH_KEY
  size,             \* MeshWarpEditor: useState size
  activePointId,    \* MeshWarpEditor: useState activePointId
  editable,         \* MeshWarpEditor: prop editable
  hookMesh,         \* useMeshHistory: useState mesh
  hookHistoryRef,   \* useMeshHistory: historyRef.current
  hookIndexRef,     \* useMeshHistory: indexRef.current
  lastOp,           \* trail: the handler that ran last ("move", "undo", "redo",
                    \*        "reset"; "other" for the rest)
  prevMesh,         \* trail: mesh before the last move/undo/redo (else the mesh)
  prevIndex,        \* trail: cursor before the last move/undo/redo (else the cursor)
  prevLen,          \* trail: history length before the last move/undo/redo/reset
  dragEntries,      \* trail: snapshots pushed since the press, up to MaxDragEntries
  appMoves,         \* long drag: moves delivered to the editor
  hookMoves,        \* long drag: meshes handed to the hook
  call,             \* a function applied on its own: its arguments and result
  playing,          \* PlaybackScreen: useState playing
  armed,            \* PlaybackScreen: useState armed
  showControls,     \* PlaybackScreen: useState showControls
  blackout,         \* PlaybackScreen: useState blackout
  videoCues,        \* App: useState videoCues (id and loop flag of every cue)
  currentCueIndex,  \* App: useState currentCueIndex
  mode,             \* App: useState mode
  storedCues,       \* AsyncStorage item CUES_KEY
  platform,         \* Platform.OS
  closure,          \* PlaybackScreen: the state values the handlers of the last render closed over
  press,            \* HiddenKeyCapture: the key press being delivered, and how often it was handled
  fade,             \* WarpedVideoPlayer: the fade-out whose callback is still to come
  canvas            \* MeshWarpCanvas: effect runs, 'play' listeners and animation frames

appVars == <<mesh, historyRef, historyIndexRef, canUndo, canRedo>>
editorVars == <<size, activePointId>>
propVars == <<editable>>
playbackVars == <<playing, armed, showControls, blackout>>
cueVars == <<videoCues, currentCueIndex>>
showVars == <<mode, storedCues>>
sideVars == <<platform, closure, press, fade, canvas>>
restVars == <<call, playbackVars, cueVars, showVars>>
hookVars == <<hookMesh, hookHistoryRef, hookIndexRef>>
ghostVars == <<lastOp, prevMesh, prevIndex, prevLen, dragEntries>>
vars == <<mesh, historyRef, historyIndexRef, canUndo, canRedo, meshLoaded, storedMesh,
          size, activePointId, editable, hookMesh, hookHistoryRef, hookIndexRef,
          lastOp, prevMesh, prevIndex, prevLen, dragEntries, appMoves, hookMoves,
          call, playing, armed, showControls, blackout, videoCues, currentCueIndex, mode, storedCues,
          platform, closure, press, fade, canvas>>

\* ----------------------------------------------------------------- inputs
\* One viewport; a press on point "1-1" (drawn at (100, 100), and still
\* within reach after either move) and a press that hits nothing; two move
\* positions, both away from where the point starts.
Sizes == {[known |-> TRUE, width |-> 300, height |-> 300]}
PressPositions == {<<100, 100>>, <<160, 150>>}
MovePositions == {<<120, 90>>, <<110, 95>>}
\* What an earlier session may have left under MESH_KEY.
StoredItems ==
  {NoItem} \cup {[present |-> TRUE, text |-> JSONstringify(DefaultMesh)]}

\* ------------------------------------------------------------------- Init
InitApp ==
  /\ mesh = DefaultMesh
  /\ historyRef = <<DefaultMesh>>
  /\ historyIndexRef = 0
  /\ canUndo = FALSE
  /\ canRedo = FALSE
  /\ meshLoaded = FALSE

InitEditor ==
  /\ size = NoSize
  /\ activePointId = NULL

\* CalibrationScreen mounts the editor with editable={true}.
InitProps == editable = TRUE

\* PlaybackScreen's first render closes over the initial state values.
FirstRender ==
  [playing |-> FALSE, armed |-> TRUE, showControls |-> TRUE, blackout |-> FALSE,
   currentCueIndex |-> 0]
\* No key press is being delivered.
NoPress == [key |-> "", left |-> 0, handled |-> 0, blackout |-> FALSE, index |-> 0]
\* No fade-out is running.
NoFade == [pending |-> FALSE, loop |-> FALSE, index |-> 0]
\* MeshWarpCanvas before its effect has run: animationRef = useRef(0).
NoCanvas ==
  [effect |-> 0, made |-> 0, listeners |-> {}, frames |-> {}, animationRef |-> 0,
   nextId |-> 1]

InitSide ==
  /\ platform = "ios"
  /\ closure = FirstRender
  /\ press = NoPress
  /\ fade = NoFade
  /\ canvas = NoCanvas

\* No function is applied on its own.
NoCall == [fn |-> "none"]

\* PlaybackScreen and the cue state of App at mount.
InitPlayback ==
  /\ playing = FALSE
  /\ armed = TRUE
  /\ showControls = TRUE
  /\ blackout = FALSE

InitCues ==
  /\ videoCues = <<>>
  /\ currentCueIndex = 0

\* App starts on the calibration screen.
InitMode == mode = "calibration"

InitRest ==
  /\ call = NoCall
  /\ InitPlayback
  /\ InitCues
  /\ InitMode
  /\ storedCues = NoItem

InitHook ==
  /\ hookMesh = DefaultMesh
  /\ hookHistoryRef = <<DefaultMesh>>
  /\ hookIndexRef = 0

InitGhost ==
  /\ lastOp = "other"
  /\ prevMesh = mesh
  /\ prevIndex = 0
  /\ prevLen = 1
  /\ dragEntries = 0
  /\ appMoves = 0
  /\ hookMoves = 0

Init ==
  /\ InitApp
  /\ InitEditor
  /\ InitProps
  /\ InitSide
  /\ InitRest
  /\ InitHook
  /\ InitGhost
  /\ storedMesh \in StoredItems

\* -------------------------------------------------------------- App: refs
updateHistoryState ==
  /\ canUndo' = CanUndoOf(historyRef', historyIndexRef')
  /\ canRedo' = CanRedoOf(historyRef', historyIndexRef')

setMesh(newMesh) ==
  LET currentMesh == ArrayAt(historyRef, historyIndexRef)
      after == PushMesh(historyRef, historyIndexRef, newMesh, MAX_HISTORY)
  IN  IF ~MeshChanged(newMesh, currentMesh)
        THEN UNCHANGED appVars
        ELSE /\ historyRef' = after.states
             /\ historyIndexRef' = after.index
             /\ mesh' = newMesh
             /\ updateHistoryState

\* Mutation: undo moves the cursor but does not publish the snapshot.
handleUndoKeepsMesh ==
  IF UndoPossible(historyRef, historyIndexRef)
    THEN /\ historyIndexRef' = UndoIndex(historyIndexRef)
         /\ historyRef' = historyRef
         /\ mesh' = mesh
         /\ updateHistoryState
    ELSE UNCHANGED appVars

handleUndo ==
  IF UndoPossible(historyRef, historyIndexRef)
    THEN /\ historyIndexRef' = UndoIndex(historyIndexRef)
         /\ historyRef' = historyRef
         /\ mesh' = ArrayAt(historyRef, historyIndexRef')
         /\ updateHistoryState
    ELSE UNCHANGED appVars

handleRedo ==
  IF RedoPossible(historyRef, historyIndexRef)
    THEN /\ historyIndexRef' = RedoIndex(historyIndexRef)
         /\ historyRef' = historyRef
         /\ mesh' = ArrayAt(historyRef, historyIndexRef')
         /\ updateHistoryState
    ELSE UNCHANGED appVars

\* handleResetMesh up to the storage call.
resetMesh ==
  LET defaultMesh == DefaultMesh
      after == ResetHistory(historyRef, historyIndexRef, defaultMesh)
  IN  /\ historyRef' = after.states
      /\ historyIndexRef' = after.index
      /\ mesh' = defaultMesh
      /\ updateHistoryState

\* ---------------------------------------------------------------- actions
\* useEffect loadData: runs once after mount; nothing is rendered before
\* meshLoaded, so no handler runs before it.  readOk = FALSE is one of the
\* two getItem calls rejecting, which rejects the Promise.all.  A throw
\* anywhere in the try block skips the rest of it.
LoadDataWith(readOk) ==
  /\ ~meshLoaded
  /\ LET meshParsed == readOk /\ storedMesh.present /\ ~ParseThrows(storedMesh)
         cuesReached == readOk /\ ~ParseThrows(storedMesh)
         cuesParsed == cuesReached /\ storedCues.present /\ ~ParseThrows(storedCues)
     IN  /\ IF meshParsed
              THEN LET parsedMesh == JSONparse(storedMesh.text) IN
                   /\ mesh' = parsedMesh
                   /\ historyRef' = <<parsedMesh>>
                   /\ historyIndexRef' = 0
              ELSE UNCHANGED <<mesh, historyRef, historyIndexRef>>
         /\ videoCues' = IF cuesParsed THEN CuesParse(storedCues.text) ELSE videoCues
         /\ mode' = IF cuesParsed /\ storedMesh.present /\ Len(CuesParse(storedCues.text)) > 0
                      THEN "playback"
                      ELSE mode
  /\ meshLoaded' = TRUE
  /\ updateHistoryState
  /\ UNCHANGED <<storedMesh, storedCues, editorVars, currentCueIndex, playbackVars>>

LoadData == \E readOk \in BOOLEAN : LoadDataWith(readOk)

\* MeshWarpEditor.handleLayout
Layout(sz) ==
  /\ meshLoaded
  /\ size' = sz
  /\ UNCHANGED <<appVars, meshLoaded, storedMesh, activePointId>>

\* MeshWarpEditor.handleTouchStart (onResponderGrant)
TouchStart(touchX, touchY) ==
  /\ meshLoaded
  /\ IF ~editable \/ ~size.known
       THEN UNCHANGED activePointId
       ELSE LET pointId == findNearestPoint(mesh, size, touchX, touchY) IN
            IF pointId # NULL
              THEN activePointId' = pointId
              ELSE UNCHANGED activePointId
  /\ UNCHANGED <<appVars, meshLoaded, storedMesh, size>>

\* MeshWarpEditor.handleTouchMove (onResponderMove) -> updatePoint ->
\* onMeshChange = App.setMesh
TouchMove(touchX, touchY) ==
  /\ meshLoaded
  /\ IF ~editable \/ activePointId = NULL \/ ~size.known
       THEN UNCHANGED appVars
       ELSE setMesh(updatePoint(mesh, size, activePointId, touchX, touchY))
  /\ UNCHANGED <<meshLoaded, storedMesh, editorVars>>

\* MeshWarpEditor.handleTouchEnd (onResponderRelease / onResponderTerminate)
TouchEnd ==
  /\ meshLoaded
  /\ activePointId' = NULL
  /\ UNCHANGED <<appVars, meshLoaded, storedMesh, size>>

\* Undo button -> App.handleUndo
Undo ==
  /\ meshLoaded
  /\ mode = "calibration"
  /\ handleUndo
  /\ UNCHANGED <<meshLoaded, storedMesh, editorVars>>

\* Redo button -> App.handleRedo
Redo ==
  /\ meshLoaded
  /\ mode = "calibration"
  /\ handleRedo
  /\ UNCHANGED <<meshLoaded, storedMesh, editorVars>>

\* CalibrationScreen.handleSave -> App.handleSaveMesh(mesh); writeOk = FALSE
\* is setItem rejecting.
SaveMeshWith(writeOk) ==
  /\ meshLoaded
  /\ mode = "calibration"
  /\ setMesh(mesh)
  /\ storedMesh' = IF writeOk
                     THEN [present |-> TRUE, text |-> JSONstringify(mesh)]
                     ELSE storedMesh
  /\ UNCHANGED <<meshLoaded, editorVars>>

SaveMesh == \E writeOk \in BOOLEAN : SaveMeshWith(writeOk)

\* CalibrationScreen.handleReset (confirmed) -> App.handleResetMesh;
\* removeOk = FALSE is removeItem rejecting.
ResetMeshWith(removeOk) ==
  /\ meshLoaded
  /\ mode = "calibration"
  /\ resetMesh
  /\ storedMesh' = IF removeOk THEN NoItem ELSE storedMesh
  /\ UNCHANGED <<meshLoaded, editorVars>>

ResetMesh == \E removeOk \in BOOLEAN : ResetMeshWith(removeOk)

\* The app is closed and launched again: the state of every component is
\* rebuilt, the storage items stay.
Restart ==
  /\ meshLoaded
  /\ mesh' = DefaultMesh
  /\ historyRef' = <<DefaultMesh>>
  /\ historyIndexRef' = 0
  /\ canUndo' = FALSE
  /\ canRedo' = FALSE
  /\ meshLoaded' = FALSE
  /\ size' = NoSize
  /\ activePointId' = NULL
  /\ videoCues' = <<>>
  /\ currentCueIndex' = 0
  /\ mode' = "calibration"
  /\ playing' = FALSE
  /\ armed' = TRUE
  /\ showControls' = TRUE
  /\ blackout' = FALSE
  /\ UNCHANGED <<storedMesh, storedCues>>

\* What the step did to the history refs.
Recorded == historyRef' # historyRef /\ Len(historyRef') > 1
Undone == historyRef' = historyRef /\ historyIndexRef' = historyIndexRef - 1
Redone == historyRef' = historyRef /\ historyIndexRef' = historyIndexRef + 1

Quiet == UNCHANGED <<propVars, sideVars, restVars, hookVars, ghostVars, appMoves, hookMoves>>
\* What lies outside the component tree of App.
Outside == UNCHANGED <<propVars, sideVars, call, hookVars, appMoves, hookMoves>>

Next ==
  \/ LoadData /\ Outside /\ UNCHANGED ghostVars
  \/ \E sz \in Sizes : Layout(sz) /\ Quiet
  \/ \E p \in PressPositions : TouchStart(p[1], p[2]) /\ Quiet
  \/ \E p \in MovePositions : TouchMove(p[1], p[2]) /\ Quiet
  \/ TouchEnd /\ Quiet
  \/ Undo /\ Quiet
  \/ Redo /\ Quiet
  \/ SaveMesh /\ Quiet
  \/ ResetMesh /\ Quiet
  \/ Restart /\ Outside /\ UNCHANGED ghostVars

Spec == Init /\ [][Next]_vars

\* ------------------------------------------- editing session with a trail
\* The same handlers, with the trail variables recording what ran last.
Trail(op) ==
  /\ lastOp' = op
  /\ prevMesh' = mesh
  /\ prevIndex' = historyIndexRef
  /\ prevLen' = Len(historyRef)

TrailOther ==
  /\ lastOp' = "other"
  /\ prevMesh' = mesh'
  /\ prevIndex' = historyIndexRef'
  /\ prevLen' = Len(historyRef')

TrailReset ==
  /\ lastOp' = "reset"
  /\ prevMesh' = mesh'
  /\ prevIndex' = historyIndexRef'
  /\ prevLen' = Len(historyRef)

\* The count of snapshots pushed during one gesture stops here.
MaxDragEntries == 2

CountEntry == dragEntries' = IF ~Recorded THEN dragEntries
                             ELSE IF dragEntries < MaxDragEntries
                                    THEN dragEntries + 1
                                    ELSE MaxDragEntries

Still == UNCHANGED <<propVars, sideVars, restVars, hookVars, appMoves, hookMoves>>

NextTrail ==
  \/ LoadData /\ TrailOther /\ UNCHANGED dragEntries /\ Outside
  \/ \E sz \in Sizes : Layout(sz) /\ TrailOther /\ UNCHANGED dragEntries /\ Still
  \/ \E p \in PressPositions : TouchStart(p[1], p[2]) /\ TrailOther /\ dragEntries' = 0 /\ Still
  \/ \E p \in MovePositions : TouchMove(p[1], p[2]) /\ Trail("move") /\ CountEntry /\ Still
  \/ TouchEnd /\ TrailOther /\ dragEntries' = 0 /\ Still
  \/ Undo /\ Trail("undo") /\ UNCHANGED dragEntries /\ Still
  \/ Redo /\ Trail("redo") /\ UNCHANGED dragEntries /\ Still
  \/ ResetMesh /\ TrailReset /\ UNCHANGED dragEntries /\ Still

\* A session started on empty storage.
InitTrail == Init /\ storedMesh = NoItem

SpecTrail == InitTrail /\ [][NextTrail]_vars

\* ------------------------------------------------------ useMeshHistory hook
\* setMesh of the hook, called with a mesh (the updater form prev => mesh is
\* resolved by the caller below).
hookSetMesh(resolvedMesh) ==
  LET currentMesh == ArrayAt(hookHistoryRef, hookIndexRef)
      hasChanged == MeshChanged(resolvedMesh, currentMesh)
      after == PushMesh(hookHistoryRef, hookIndexRef, resolvedMesh, HOOK_MAX_HISTORY)
  IN  IF ~hasChanged
        THEN UNCHANGED hookVars
        ELSE /\ hookHistoryRef' = after.states
             /\ hookIndexRef' = after.index
             /\ hookMesh' = resolvedMesh

\* ------------------------------------------------------------ one long drag
\* One gesture on a fresh session whose k-th move goes to a position no
\* earlier move visited, so that every move hands over a new mesh; the hook
\* is fed the same meshes through its updater form.
\* The long drag goes on for this many moves past the history limit.
ExtraMoves == 5

LongDragPosition(k) == <<k, 7>>
LongDragMesh(m, sz, id, k) ==
  updatePoint(m, sz, id, LongDragPosition(k)[1], LongDragPosition(k)[2])

LongDragPress ==
  /\ appMoves = 0
  /\ activePointId = NULL
  /\ \E p \in PressPositions : TouchStart(p[1], p[2])
  /\ UNCHANGED <<propVars, sideVars, restVars, hookVars, ghostVars, appMoves, hookMoves>>

LongDragMove ==
  /\ appMoves < MAX_HISTORY + ExtraMoves
  /\ activePointId # NULL
  /\ TouchMove(LongDragPosition(appMoves + 1)[1], LongDragPosition(appMoves + 1)[2])
  /\ appMoves' = appMoves + 1
  /\ UNCHANGED <<propVars, sideVars, restVars, hookVars, ghostVars, hookMoves>>

HookLongDragMove ==
  /\ hookMoves < HOOK_MAX_HISTORY + ExtraMoves
  /\ \E sz \in Sizes :
       hookSetMesh(LongDragMesh(ArrayAt(hookHistoryRef, hookIndexRef), sz, "1-1", hookMoves + 1))
  /\ hookMoves' = hookMoves + 1
  /\ UNCHANGED <<appVars, meshLoaded, storedMesh, editorVars, propVars, sideVars, restVars,
               ghostVars, appMoves>>

NextLongDrag ==
  \/ LoadData /\ Outside /\ UNCHANGED ghostVars
  \/ \E sz \in Sizes : Layout(sz) /\ Quiet
  \/ LongDragPress
  \/ LongDragMove
  \/ HookLongDragMove

SpecLongDrag == Init /\ [][NextLongDrag]_vars

\* ------------------------------------------- the editor under more inputs
\* The editor as a component: editable is whatever the parent passes; the
\* handlers are called with presses on a point, near a point and away from
\* every point, and with moves inside and outside the viewport.
MaxEditorMoves == 2

EditorSizes == {[known |-> TRUE, width |-> 300, height |-> 300],
                [known |-> TRUE, width |-> 200, height |-> 100]}
EditorPresses == {<<100, 100>>, <<220, 100>>, <<160, 150>>}
EditorMoves == {<<120, 90>>, <<-10, 350>>}

InitEditorSession ==
  /\ InitApp
  /\ InitEditor
  /\ editable \in BOOLEAN
  /\ InitSide
  /\ InitRest
  /\ InitHook
  /\ InitGhost
  /\ storedMesh = NoItem

EditorMove(touchX, touchY) ==
  /\ appMoves < MaxEditorMoves
  /\ TouchMove(touchX, touchY)
  /\ appMoves' = appMoves + 1
  /\ UNCHANGED <<propVars, sideVars, restVars, hookVars, ghostVars, hookMoves>>

NextEditor ==
  \/ LoadData /\ Outside /\ UNCHANGED ghostVars
  \/ \E sz \in EditorSizes : Layout(sz) /\ Quiet
  \/ \E p \in EditorPresses : TouchStart(p[1], p[2]) /\ Quiet
  \/ \E p \in EditorMoves : EditorMove(p[1], p[2])
  \/ TouchEnd /\ Quiet

SpecEditor == InitEditorSession /\ [][NextEditor]_vars

\* ------------------------------------------------ findNearestPoint alone
\* findNearestPoint applied to a mesh, a viewport and a touch: the default
\* mesh and a 5 x 5 mesh, touches on points, at 31, 32 and 33 pixels from a
\* point, between two points and far from all of them.
HitMeshes == {DefaultMesh, buildDefaultMesh(5, 5)}
HitSizes == {[known |-> TRUE, width |-> 300, height |-> 300],
             [known |-> TRUE, width |-> 200, height |-> 100]}
TouchXs == {0, 25, 68, 100, 132, 133, 150, 220, 300}
TouchYs == {0, 25, 100, 131, 250}

CoreIdle ==
  /\ InitApp
  /\ InitEditor
  /\ InitProps
  /\ InitSide
  /\ InitHook
  /\ InitGhost
  /\ storedMesh = NoItem
  /\ storedCues = NoItem

InitHitTest ==
  /\ CoreIdle
  /\ InitMode
  /\ InitPlayback
  /\ InitCues
  /\ \E m \in HitMeshes, sz \in HitSizes, touchX \in TouchXs, touchY \in TouchYs :
       call = [fn |-> "findNearestPoint", done |-> FALSE, mesh |-> m, size |-> sz,
               touchX |-> touchX, touchY |-> touchY, result |-> NULL]

HitTest ==
  /\ call.fn = "findNearestPoint"
  /\ ~call.done
  /\ call' = [call EXCEPT !.done = TRUE,
                          !.result = findNearestPoint(call.mesh, call.size,
                                                      call.touchX, call.touchY)]
  /\ UNCHANGED <<appVars, meshLoaded, storedMesh, editorVars, propVars, sideVars, hookVars,
                 ghostVars, appMoves, hookMoves, playbackVars, cueVars, showVars>>

NextHitTest == HitTest

SpecHitTest == InitHitTest /\ [][NextHitTest]_vars

\* ------------------------------------------------ buildDefaultMesh alone
\* buildDefaultMesh applied to every rows, cols in 0..MaxDim, and the grid
\* shape the editor derives from the ids of the result.
MaxDim == 7

\* p.id.split('-')[0] and [1] read as numbers: the r and c that the id was
\* built from.
IdParts(id) ==
  CHOOSE rc \in (0..MaxDim) \X (0..MaxDim) : ToString(rc[1]) \o "-" \o ToString(rc[2]) = id
MaxOf(ns) == CHOOSE n \in ns : \A k \in ns : k <= n
\* Math.max(...) + 1 || 1; Math.max() of no argument is -Infinity.
gridRows(m) ==
  IF Len(m) = 0 THEN <<-1, 0>> ELSE MaxOf({IdParts(m[i].id)[1] : i \in 1..Len(m)}) + 1
gridCols(m) ==
  IF Len(m) = 0 THEN <<-1, 0>> ELSE MaxOf({IdParts(m[i].id)[2] : i \in 1..Len(m)}) + 1

InitGenerate ==
  /\ CoreIdle
  /\ InitMode
  /\ InitPlayback
  /\ InitCues
  /\ \E rows \in 0..MaxDim, cols \in 0..MaxDim :
       call = [fn |-> "buildDefaultMesh", done |-> FALSE, rows |-> rows, cols |-> cols,
               outcome |-> "none", result |-> <<>>]

\* The function has no throw statement and no operation that throws on
\* numbers: it always returns.
Generate ==
  /\ call.fn = "buildDefaultMesh"
  /\ ~call.done
  /\ call' = [call EXCEPT !.done = TRUE,
                          !.outcome = "returned",
                          !.result = buildDefaultMesh(call.rows, call.cols)]
  /\ UNCHANGED <<appVars, meshLoaded, storedMesh, editorVars, propVars, sideVars, hookVars,
                 ghostVars, appMoves, hookMoves, playbackVars, cueVars, showVars>>

NextGenerate == Generate

SpecGenerate == InitGenerate /\ [][NextGenerate]_vars

\* -------------------------------------------------------- PlaybackScreen
TRIGGER_KEYS == {" ", "Enter", "ArrowUp", "MediaPlayPause", "AudioVolumeUp",
                 "AudioVolumeDown", "VolumeUp", "VolumeDown"}
NEXT_CUE_KEYS == {"ArrowRight", "n", "N"}
PREV_CUE_KEYS == {"ArrowLeft", "p", "P"}

\* App: videoCues[currentCueIndex]?.loop || false
currentCueLoop ==
  IF currentCueIndex >= 0 /\ currentCueIndex < Len(videoCues)
    THEN videoCues[currentCueIndex + 1].loop
    ELSE FALSE

\* App.handleNextCue / App.handlePrevCue
handleNextCue ==
  currentCueIndex' = IF currentCueIndex < Len(videoCues) - 1
                       THEN currentCueIndex + 1
                       ELSE currentCueIndex

handlePrevCue ==
  currentCueIndex' = IF currentCueIndex > 0 THEN currentCueIndex - 1 ELSE currentCueIndex

\* Mutation: navigation keys are taken while playing.
NavAllowedAlways(isPlaying) == TRUE

\* if (!playing) around the navigation keys.
NavAllowed(isPlaying) == ~isPlaying

\* Mutation: blackout does not stop a trigger.
TriggerAllowedInBlackout(isArmed, isBlackout) == isArmed

\* if (!armed || blackout) return;
TriggerAllowed(isArmed, isBlackout) == ~(~isArmed \/ isBlackout)

\* Mutation: a trigger leaves the controller armed.
StartPlaybackArmed(wasArmed) ==
  /\ playing' = TRUE
  /\ armed' = wasArmed
  /\ showControls' = FALSE

\* setPlaying(true); setArmed(false); setShowControls(false);
StartPlayback(wasArmed) ==
  /\ playing' = TRUE
  /\ armed' = FALSE
  /\ showControls' = FALSE

\* Mutation: the stop clears playing and forgets to arm again.
StopIfPlayingUnarmed ==
  IF playing
    THEN playing' = FALSE /\ armed' = armed
    ELSE UNCHANGED <<playing, armed>>

\* if (playing) { setPlaying(false); setArmed(true); }
StopIfPlaying ==
  IF playing
    THEN playing' = FALSE /\ armed' = TRUE
    ELSE UNCHANGED <<playing, armed>>

\* Mutation: a looping cue advances too.
AutoAdvanceLooping(loop, index, length) == index < length - 1

\* if (!currentCueLoop && currentCueIndex < videoCues.length - 1)
AutoAdvance(loop, index, length) == ~loop /\ index < length - 1

handleKeyPress(key) ==
  IF key = "Escape"
    THEN /\ blackout' = ~blackout
         /\ StopIfPlaying
         /\ UNCHANGED <<showControls, cueVars>>
  ELSE IF NavAllowed(playing) /\ key \in NEXT_CUE_KEYS
    THEN handleNextCue /\ UNCHANGED <<playbackVars, videoCues>>
  ELSE IF NavAllowed(playing) /\ key \in PREV_CUE_KEYS
    THEN handlePrevCue /\ UNCHANGED <<playbackVars, videoCues>>
  ELSE IF ~TriggerAllowed(armed, blackout)
    THEN UNCHANGED <<playbackVars, cueVars>>
  ELSE IF key \in TRIGGER_KEYS
    THEN StartPlayback(armed) /\ UNCHANGED <<blackout, cueVars>>
  ELSE UNCHANGED <<playbackVars, cueVars>>

handlePlaybackFinished ==
  /\ playing' = FALSE
  /\ armed' = TRUE
  /\ IF AutoAdvance(currentCueLoop, currentCueIndex, Len(videoCues))
       THEN handleNextCue
       ELSE UNCHANGED currentCueIndex
  /\ UNCHANGED <<showControls, blackout, videoCues>>

\* Mutation: the button starts playback whatever the state.
handleManualTriggerAlways ==
  StartPlayback(armed) /\ UNCHANGED <<blackout, cueVars>>

handleManualTrigger ==
  IF ~TriggerAllowed(armed, blackout)
    THEN UNCHANGED <<playbackVars, cueVars>>
    ELSE StartPlayback(armed) /\ UNCHANGED <<blackout, cueVars>>

\* Mutation: a tap on the screen ends the playback.
handleScreenTapStops ==
  /\ playing' = FALSE
  /\ armed' = TRUE
  /\ UNCHANGED <<showControls, blackout, cueVars>>

handleScreenTap ==
  /\ showControls' = IF ~playing THEN ~showControls ELSE showControls
  /\ UNCHANGED <<playing, armed, blackout, cueVars>>

handleBlackout ==
  /\ blackout' = TRUE
  /\ StopIfPlaying
  /\ UNCHANGED <<showControls, cueVars>>

handleUnblackout ==
  /\ blackout' = FALSE
  /\ UNCHANGED <<playing, armed, showControls, cueVars>>

\* HiddenKeyCapture: the key a media-session action is turned into.
MediaSessionActions == {"play", "pause", "previoustrack", "nexttrack"}
MediaSessionKey(action) ==
  IF action \in {"play", "pause"} THEN " "
  ELSE IF action = "previoustrack" THEN "ArrowLeft"
  ELSE "ArrowRight"

\* The keys a device may send: every key the screen knows, and one it ignores.
Keys == TRIGGER_KEYS \cup NEXT_CUE_KEYS \cup PREV_CUE_KEYS \cup {"Escape", "x"}

\* What the screen renders decides which handlers a tap can reach: the
\* blackout overlay replaces everything else; the buttons sit in the
\* controls overlay; Prev / Next need two cues and are disabled at the ends;
\* Trigger is disabled when not armed.
ControlsShown == ~blackout /\ showControls

\* App renders PlaybackScreen in playback mode only.
OnPlayback == mode = "playback"

\* The part of the state the playback screen leaves alone.
MeshIdle ==
  UNCHANGED <<appVars, meshLoaded, storedMesh, editorVars, propVars, sideVars, hookVars,
              appMoves, hookMoves, call, prevMesh, prevLen, dragEntries, showVars>>

\* The trail of the playback screen: the handler that ran and the cue
\* cursor before it.
Ran(op) ==
  /\ lastOp' = op
  /\ prevIndex' = currentCueIndex

\* Mutation: a key press on the playback screen also resets the mesh.
KeyPressResets(key) ==
  /\ OnPlayback
  /\ handleKeyPress(key)
  /\ Ran(key)
  /\ resetMesh
  /\ UNCHANGED <<meshLoaded, storedMesh, editorVars, propVars, sideVars, hookVars,
                 appMoves, hookMoves, call, prevMesh, prevLen, dragEntries, showVars>>

KeyPress(key) == OnPlayback /\ handleKeyPress(key) /\ Ran(key) /\ MeshIdle

MediaSession(action) ==
  OnPlayback /\ handleKeyPress(MediaSessionKey(action)) /\ Ran(action) /\ MeshIdle

\* App: videoCues[currentCueIndex]?.uri || null is a source to play.
HasVideo == currentCueIndex >= 0 /\ currentCueIndex < Len(videoCues)

\* The player is mounted outside blackout, plays when playing is set and
\* signals the end of the source it was given.
PlaybackFinished ==
  /\ OnPlayback
  /\ playing
  /\ ~blackout
  /\ HasVideo
  /\ handlePlaybackFinished
  /\ Ran("finished")
  /\ MeshIdle

ManualTrigger ==
  /\ OnPlayback
  /\ ControlsShown
  /\ armed
  /\ handleManualTrigger
  /\ Ran("manual")
  /\ MeshIdle

ScreenTap ==
  /\ OnPlayback
  /\ ~blackout
  /\ handleScreenTap
  /\ Ran("tap")
  /\ MeshIdle

BlackoutButton ==
  /\ OnPlayback
  /\ ControlsShown
  /\ handleBlackout
  /\ Ran("blackout")
  /\ MeshIdle

Unblackout ==
  /\ OnPlayback
  /\ blackout
  /\ handleUnblackout
  /\ Ran("unblackout")
  /\ MeshIdle

PrevButton ==
  /\ OnPlayback
  /\ ControlsShown
  /\ Len(videoCues) > 1
  /\ currentCueIndex # 0
  /\ handlePrevCue
  /\ UNCHANGED <<playbackVars, videoCues>>
  /\ Ran("prevButton")
  /\ MeshIdle

NextButton ==
  /\ OnPlayback
  /\ ControlsShown
  /\ Len(videoCues) > 1
  /\ currentCueIndex # Len(videoCues) - 1
  /\ handleNextCue
  /\ UNCHANGED <<playbackVars, videoCues>>
  /\ Ran("nextButton")
  /\ MeshIdle

\* The playlists a show may hold: up to MaxCues cues, each looping or not.
MaxCues == 3
\* createVideoCue: the id of a cue, made from the clock and a random suffix.
CueId(i) == "cue-" \o ToString(i)
RECURSIVE CueLists(_)
CueLists(n) ==
  IF n = 0 THEN {<<>>}
  ELSE CueLists(n - 1) \cup
       {Append(cues, [id |-> CueId(n), loop |-> l]) : cues \in {c \in CueLists(n - 1) : Len(c) = n - 1},
                                     l \in BOOLEAN}

\* What calibration may leave behind when the playback screen mounts: the
\* default mesh alone, or an edit of it with the cursor on either snapshot.
EditedMesh ==
  updatePoint(DefaultMesh, [known |-> TRUE, width |-> 300, height |-> 300], "1-1", 170, 230)
CalibratedHistories ==
  {[states |-> <<DefaultMesh>>, index |-> 0],
   [states |-> <<DefaultMesh, EditedMesh>>, index |-> 1],
   [states |-> <<DefaultMesh, EditedMesh>>, index |-> 0]}

InitPlaybackSession ==
  /\ \E h \in CalibratedHistories :
       /\ historyRef = h.states
       /\ historyIndexRef = h.index
       /\ mesh = ArrayAt(h.states, h.index)
       /\ canUndo = CanUndoOf(h.states, h.index)
       /\ canRedo = CanRedoOf(h.states, h.index)
  /\ meshLoaded = TRUE
  /\ InitEditor
  /\ InitProps
  /\ InitSide
  /\ InitHook
  /\ InitGhost
  /\ storedMesh = NoItem
  /\ storedCues = NoItem
  /\ call = NoCall
  /\ InitPlayback
  /\ videoCues \in CueLists(MaxCues)
  /\ currentCueIndex = 0
  /\ mode = "playback"

NextPlayback ==
  \/ \E key \in Keys : KeyPress(key)
  \/ \E action \in MediaSessionActions : MediaSession(action)
  \/ PlaybackFinished
  \/ ManualTrigger
  \/ ScreenTap
  \/ BlackoutButton
  \/ Unblackout
  \/ PrevButton
  \/ NextButton

SpecPlayback == InitPlaybackSession /\ [][NextPlayback]_vars

\* ------------------------------------------------- App: the cue list
\* createVideoCue(uri, name)
createVideoCue(id) == [id |-> id, loop |-> FALSE]

\* AsyncStorage.setItem(CUES_KEY, JSON.stringify(updatedCues)) inside
\* try / catch; writeOk = FALSE is setItem rejecting.
setItemCues(updatedCues, writeOk) ==
  storedCues' = IF writeOk
                  THEN [present |-> TRUE, text |-> CuesStringify(updatedCues)]
                  ELSE storedCues

handleVideoSelected(id, writeOk) ==
  LET newCue == createVideoCue(id)
      updatedCues == Append(videoCues, newCue)
  IN  /\ videoCues' = updatedCues
      /\ currentCueIndex' = Len(updatedCues) - 1
      /\ setItemCues(updatedCues, writeOk)

\* Mutation: the cursor is left where it was.
RepairIndexNever(index, length) == index

\* if (currentCueIndex >= updatedCues.length)
\*   setCurrentCueIndex(Math.max(0, updatedCues.length - 1));
RepairIndex(index, length) ==
  IF index >= length
    THEN (IF length - 1 > 0 THEN length - 1 ELSE 0)
    ELSE index

handleRemoveCue(cueId, writeOk) ==
  LET updatedCues == SelectSeq(videoCues, LAMBDA c : c.id # cueId)
  IN  /\ videoCues' = updatedCues
      /\ currentCueIndex' = RepairIndex(currentCueIndex, Len(updatedCues))
      /\ setItemCues(updatedCues, writeOk)

handleToggleCueLoop(cueId, writeOk) ==
  LET updatedCues == [i \in 1..Len(videoCues) |->
                        IF videoCues[i].id = cueId
                          THEN [videoCues[i] EXCEPT !.loop = ~videoCues[i].loop]
                          ELSE videoCues[i]]
  IN  /\ videoCues' = updatedCues
      /\ UNCHANGED currentCueIndex
      /\ setItemCues(updatedCues, writeOk)

handleSelectCue(index) ==
  currentCueIndex' = IF index >= 0 /\ index < Len(videoCues)
                       THEN index
                       ELSE currentCueIndex

\* ------------------------------------------------------ the whole show
\* The two screens of App with their cue list: cues are added, removed,
\* looped and selected on the calibration screen, played on the playback
\* screen; the mesh is saved and reset but not dragged.
\* The ids createVideoCue can give; a new cue gets one that is not in use.
CueIds == {CueId(1), CueId(2)}
UsedIds == {videoCues[i].id : i \in 1..Len(videoCues)}

\* App renders CalibrationScreen in calibration mode, once loaded.
OnCalibration == meshLoaded /\ mode = "calibration"

\* What a handler of the cue list leaves alone.
CueFrame ==
  UNCHANGED <<appVars, meshLoaded, storedMesh, editorVars, propVars, sideVars, hookVars,
              appMoves, hookMoves, call, prevMesh, prevLen, dragEntries,
              playbackVars, mode>>

\* CalibrationScreen.pickVideo with a video picked -> App.handleVideoSelected
VideoSelected(id, writeOk) ==
  /\ OnCalibration
  /\ id \notin UsedIds
  /\ handleVideoSelected(id, writeOk)
  /\ Ran("add")
  /\ CueFrame

\* Long press on a cue of the list, then Remove -> App.handleRemoveCue
RemoveCue(cueId, writeOk) ==
  /\ OnCalibration
  /\ cueId \in UsedIds
  /\ handleRemoveCue(cueId, writeOk)
  /\ Ran("remove")
  /\ CueFrame

\* Long press on a cue of the list, then Enable / Disable Loop ->
\* App.handleToggleCueLoop
ToggleCueLoop(cueId, writeOk) ==
  /\ OnCalibration
  /\ cueId \in UsedIds
  /\ handleToggleCueLoop(cueId, writeOk)
  /\ Ran("loop")
  /\ CueFrame

\* Press on the index-th cue of the list -> App.handleSelectCue
SelectCue(index) ==
  /\ OnCalibration
  /\ index < Len(videoCues)
  /\ handleSelectCue(index)
  /\ Ran("select")
  /\ UNCHANGED <<videoCues, storedCues>>
  /\ CueFrame

\* Save and Reset on the calibration screen.
ShowSave(writeOk) ==
  /\ SaveMeshWith(writeOk)
  /\ Ran("save")
  /\ UNCHANGED <<propVars, sideVars, hookVars, appMoves, hookMoves, call, prevMesh, prevLen,
                 dragEntries, playbackVars, cueVars, showVars>>

ShowReset(removeOk) ==
  /\ ResetMeshWith(removeOk)
  /\ Ran("reset")
  /\ UNCHANGED <<propVars, sideVars, hookVars, appMoves, hookMoves, call, prevMesh, prevLen,
                 dragEntries, playbackVars, cueVars, showVars>>

ShowLoad(readOk) ==
  /\ LoadDataWith(readOk)
  /\ Ran("load")
  /\ Outside
  /\ UNCHANGED <<prevMesh, prevLen, dragEntries>>

ShowRestart ==
  /\ Restart
  /\ Ran("restart")
  /\ Outside
  /\ UNCHANGED <<prevMesh, prevLen, dragEntries>>

\* The Play button, disabled without a cue, and the Go to Playback choice
\* of the alert that follows Save: () => setMode('playback').  The playback
\* screen mounts with the initial values of its state.
GoToPlayback ==
  /\ OnCalibration
  /\ Len(videoCues) > 0 \/ lastOp = "save"
  /\ mode' = "playback"
  /\ Ran("play")
  /\ UNCHANGED <<appVars, meshLoaded, storedMesh, editorVars, propVars, sideVars, hookVars,
                 appMoves, hookMoves, call, prevMesh, prevLen, dragEntries,
                 playbackVars, cueVars, storedCues>>

\* The Setup button of the controls overlay: () => setMode('calibration').
\* The playback screen is unmounted and its state is gone.
GoToCalibration ==
  /\ OnPlayback
  /\ meshLoaded
  /\ ControlsShown
  /\ mode' = "calibration"
  /\ playing' = FALSE
  /\ armed' = TRUE
  /\ showControls' = TRUE
  /\ blackout' = FALSE
  /\ Ran("setup")
  /\ UNCHANGED <<appVars, meshLoaded, storedMesh, editorVars, propVars, sideVars, hookVars,
                 appMoves, hookMoves, call, prevMesh, prevLen, dragEntries,
                 cueVars, storedCues>>

\* What storage may hold at the first launch: nothing, a saved mesh or a
\* text that is no JSON; nothing, a saved cue list or a text that is no JSON.
ShowMeshItems == StoredItems \cup {[present |-> TRUE, text |-> NotJSON]}
ShowCueItems ==
  {NoItem,
   [present |-> TRUE, text |-> CuesStringify(<<>>)],
   [present |-> TRUE, text |-> CuesStringify(<<[id |-> CueId(1), loop |-> TRUE]>>)],
   [present |-> TRUE, text |-> NotJSON]}

InitShow ==
  /\ InitApp
  /\ InitEditor
  /\ InitProps
  /\ InitSide
  /\ call = NoCall
  /\ InitPlayback
  /\ InitCues
  /\ InitMode
  /\ InitHook
  /\ InitGhost
  /\ storedMesh \in ShowMeshItems
  /\ storedCues \in ShowCueItems

NextShow ==
  \/ \E readOk \in BOOLEAN : ShowLoad(readOk)
  \/ ShowRestart
  \/ \E writeOk \in BOOLEAN : ShowSave(writeOk)
  \/ \E removeOk \in BOOLEAN : ShowReset(removeOk)
  \/ \E id \in CueIds, writeOk \in BOOLEAN : VideoSelected(id, writeOk)
  \/ \E cueId \in CueIds, writeOk \in BOOLEAN : RemoveCue(cueId, writeOk)
  \/ \E cueId \in CueIds, writeOk \in BOOLEAN : ToggleCueLoop(cueId, writeOk)
  \/ \E index \in 0..(Cardinality(CueIds) - 1) : SelectCue(index)
  \/ GoToPlayback
  \/ GoToCalibration
  \/ \E key \in {"Enter", "ArrowRight", "ArrowLeft", "Escape"} : KeyPress(key) /\ meshLoaded
  \/ PlaybackFinished /\ meshLoaded
  \/ ScreenTap /\ meshLoaded

SpecShow == InitShow /\ [][NextShow]_vars

\* ------------------------------------------------ MeshWarpCanvas.render
\* A pixel position: x and y as fractions.
Pixel(x, y) == [x |-> x, y |-> y]

\* getMeshPoint: the point at array position row * gridSize + col, scaled to
\* the canvas; the regular grid position when the array has no such entry.
getMeshPoint(m, gridSize, width, height, row, col) ==
  LET index == row * gridSize + col IN
  IF index >= 0 /\ index < Len(m)
    THEN Pixel(Frac(m[index + 1].x[1] * width, m[index + 1].x[2]),
               Frac(m[index + 1].y[1] * height, m[index + 1].y[2]))
    ELSE Pixel(Frac(col * width, gridSize - 1), Frac(row * height, gridSize - 1))

\* One pass of the two for-loops of render: the arguments of every
\* drawWarpedQuad call, in call order.
renderCells(m, gridSize, width, height, videoWidth, videoHeight) ==
  LET n == gridSize - 1
      cellWidth == Frac(videoWidth, n)
      cellHeight == Frac(videoHeight, n)
  IN  [k \in 1..(n * n) |->
         LET row == (k - 1) \div n
             col == (k - 1) % n
         IN  [row |-> row, col |-> col,
              srcX |-> Frac(col * cellWidth[1], cellWidth[2]),
              srcY |-> Frac(row * cellHeight[1], cellHeight[2]),
              srcW |-> cellWidth, srcH |-> cellHeight,
              p0 |-> getMeshPoint(m, gridSize, width, height, row, col),
              p1 |-> getMeshPoint(m, gridSize, width, height, row, col + 1),
              p2 |-> getMeshPoint(m, gridSize, width, height, row + 1, col + 1),
              p3 |-> getMeshPoint(m, gridSize, width, height, row + 1, col)]]

\* render applied on its own.  The meshes: every identity mesh up to
\* MaxGrid x MaxGrid, the default mesh with a dragged point, in reverse
\* array order, without its point "1-1", and dragged without its last point.
MaxGrid == 4
Dragged(m) == updatePoint(m, [known |-> TRUE, width |-> 300, height |-> 300], "2-2", 170, 230)
Reversed(m) == [i \in 1..Len(m) |-> m[Len(m) + 1 - i]]
Without(m, id) == SelectSeq(m, LAMBDA p : p.id # id)
RenderMeshes ==
  {buildDefaultMesh(rows, cols) : rows \in 2..MaxGrid, cols \in 2..MaxGrid}
    \cup {Dragged(DefaultMesh), Reversed(DefaultMesh), Reversed(Dragged(DefaultMesh)),
          Without(DefaultMesh, "1-1"), Without(Dragged(DefaultMesh), "3-3")}
RenderSizes == {<<300, 300>>, <<200, 100>>}
\* video.videoWidth / videoHeight: 0 before the metadata is known.
VideoSizes == {<<300, 300>>, <<200, 100>>, <<0, 0>>, <<640, 480>>}

InitRender ==
  /\ CoreIdle
  /\ InitPlayback
  /\ InitCues
  /\ InitMode
  /\ \E m \in RenderMeshes, gridSize \in 2..MaxGrid, sz \in RenderSizes, vsz \in VideoSizes,
        active \in BOOLEAN, frameReady \in BOOLEAN :
       call = [fn |-> "render", done |-> FALSE, mesh |-> m, gridSize |-> gridSize,
               width |-> sz[1], height |-> sz[2],
               videoWidth |-> vsz[1], videoHeight |-> vsz[2],
               active |-> active, frameReady |-> frameReady,
               cells |-> <<>>, drawn |-> 0, nextTick |-> FALSE]

\* One tick: nothing is drawn while the video is paused or ended; otherwise
\* every cell is handed to drawWarpedQuad, whose drawImage calls throw when
\* the frame cannot be decoded yet and are caught one by one;
\* requestAnimationFrame(render) follows in every case.
Render ==
  /\ call.fn = "render"
  /\ ~call.done
  /\ LET videoWidth == IF call.videoWidth # 0 THEN call.videoWidth ELSE call.width
         videoHeight == IF call.videoHeight # 0 THEN call.videoHeight ELSE call.height
         cells == IF call.active
                    THEN renderCells(call.mesh, call.gridSize, call.width, call.height,
                                     videoWidth, videoHeight)
                    ELSE <<>>
     IN  call' = [call EXCEPT !.done = TRUE,
                              !.cells = cells,
                              !.drawn = IF call.frameReady THEN Len(cells) ELSE 0,
                              !.nextTick = TRUE]
  /\ UNCHANGED <<appVars, meshLoaded, storedMesh, editorVars, propVars, sideVars, hookVars,
                 ghostVars, appMoves, hookMoves, playbackVars, cueVars, showVars>>

NextRender == Render

SpecRender == InitRender /\ [][NextRender]_vars

\* --------------------------------------------------- handleRemoveCue alone
\* handleRemoveCue called on playlists of up to MaxCues cues with the cursor
\* on any of them, for the id of every cue and for an id no cue has.
RemoveIds == {CueId(i) : i \in 0..MaxCues}

RemoveAny(cueId, writeOk) ==
  /\ OnCalibration
  /\ handleRemoveCue(cueId, writeOk)
  /\ Ran("remove")
  /\ CueFrame

InitRemove ==
  /\ mesh = DefaultMesh
  /\ historyRef = <<DefaultMesh>>
  /\ historyIndexRef = 0
  /\ canUndo = FALSE
  /\ canRedo = FALSE
  /\ meshLoaded = TRUE
  /\ InitEditor
  /\ InitProps
  /\ InitSide
  /\ InitHook
  /\ InitGhost
  /\ InitPlayback
  /\ InitMode
  /\ call = NoCall
  /\ storedMesh = NoItem
  /\ videoCues \in CueLists(MaxCues)
  /\ currentCueIndex \in {i \in 0..MaxCues : i = 0 \/ i < Len(videoCues)}
  /\ storedCues = [present |-> TRUE, text |-> CuesStringify(videoCues)]

NextRemove == \E cueId \in RemoveIds, writeOk \in BOOLEAN : RemoveAny(cueId, writeOk)

SpecRemove == InitRemove /\ [][NextRemove]_vars

\* ------------------------------------- key delivery and handler closures
\* A handler is the function one render created: it tests the state values
\* that render saw.  State setters with a value overwrite the state; the
\* updater form (prev => ...) reads the state at the time it is applied.
\* The values the render of the current state would hand to its handlers.
Snapshot ==
  [playing |-> playing, armed |-> armed, showControls |-> showControls,
   blackout |-> blackout, currentCueIndex |-> currentCueIndex]

\* App.handleNextCue / handlePrevCue created by the render that saw c.
handleNextCueOf(c) ==
  currentCueIndex' = IF c.currentCueIndex < Len(videoCues) - 1
                       THEN c.currentCueIndex + 1
                       ELSE currentCueIndex

handlePrevCueOf(c) ==
  currentCueIndex' = IF c.currentCueIndex > 0 THEN c.currentCueIndex - 1 ELSE currentCueIndex

\* handleKeyPress created by the render that saw c: setBlackout takes an
\* updater, every test reads c.
handleKeyPressOf(c, key) ==
  IF key = "Escape"
    THEN /\ blackout' = ~blackout
         /\ IF c.playing
              THEN playing' = FALSE /\ armed' = TRUE
              ELSE UNCHANGED <<playing, armed>>
         /\ UNCHANGED <<showControls, cueVars>>
  ELSE IF NavAllowed(c.playing) /\ key \in NEXT_CUE_KEYS
    THEN handleNextCueOf(c) /\ UNCHANGED <<playbackVars, videoCues>>
  ELSE IF NavAllowed(c.playing) /\ key \in PREV_CUE_KEYS
    THEN handlePrevCueOf(c) /\ UNCHANGED <<playbackVars, videoCues>>
  ELSE IF ~TriggerAllowed(c.armed, c.blackout)
    THEN UNCHANGED <<playbackVars, cueVars>>
  ELSE IF key \in TRIGGER_KEYS
    THEN StartPlayback(c.armed) /\ UNCHANGED <<blackout, cueVars>>
  ELSE UNCHANGED <<playbackVars, cueVars>>

\* handlePlaybackFinished created by the render that saw the cue f.index
\* with loop flag f.loop; there is no test of playing.
handlePlaybackFinishedOf(f) ==
  /\ playing' = FALSE
  /\ armed' = TRUE
  /\ currentCueIndex' = IF AutoAdvance(f.loop, f.index, Len(videoCues))
                          THEN f.index + 1
                          ELSE currentCueIndex
  /\ UNCHANGED <<showControls, blackout, videoCues>>

\* handleBlackout created by the render that saw c.
handleBlackoutOf(c) ==
  /\ blackout' = TRUE
  /\ IF c.playing
       THEN playing' = FALSE /\ armed' = TRUE
       ELSE UNCHANGED <<playing, armed>>
  /\ UNCHANGED <<showControls, cueVars>>

\* HiddenKeyCapture calls onKeyPress(key) from the onKeyPress of its
\* TextInput and, on the web, from a window keydown listener.  Whether a
\* keydown handled by the focused TextInput goes on to the window listener
\* is decided by the TextInput of the platform library: both outcomes.
Deliveries(os, bubbles) ==
  IF os = "web"
    THEN (IF bubbles THEN 2 ELSE 1)
    ELSE 1

DeliveryFrame ==
  UNCHANGED <<appVars, meshLoaded, storedMesh, editorVars, propVars, hookVars,
              appMoves, hookMoves, call, ghostVars, showVars, platform, canvas>>

\* No key event is being dispatched: other events wait until it is.
NoDispatch == press.left = 0

\* A key goes down on the device: the keydown event reaches the first
\* listener, which calls onKeyPress(key).
PressKey(key, bubbles) ==
  /\ OnPlayback
  /\ NoDispatch
  /\ handleKeyPressOf(closure, key)
  /\ press' = [key |-> key, left |-> Deliveries(platform, bubbles) - 1, handled |-> 1,
               blackout |-> blackout, index |-> currentCueIndex]
  /\ UNCHANGED <<closure, fade>>
  /\ DeliveryFrame

\* The same event reaches the next listener, which calls onKeyPress(key).
Deliver ==
  /\ OnPlayback
  /\ press.left > 0
  /\ handleKeyPressOf(closure, press.key)
  /\ press' = [press EXCEPT !.left = @ - 1, !.handled = @ + 1]
  /\ UNCHANGED <<closure, fade>>
  /\ DeliveryFrame

\* React renders the screen again and the listeners get the new handlers.
Rerender ==
  /\ OnPlayback
  /\ closure # Snapshot
  /\ closure' = Snapshot
  /\ UNCHANGED <<playbackVars, cueVars, press, fade>>
  /\ DeliveryFrame

\* The source reaches its end in the player rendered with playing set:
\* handlePlaybackEnd starts the 300 ms fade-out, whose callback holds the
\* onPlaybackFinished of that render.
SourceEnded ==
  /\ OnPlayback
  /\ NoDispatch
  /\ closure.playing
  /\ ~closure.blackout
  /\ closure.currentCueIndex < Len(videoCues)
  /\ ~fade.pending
  /\ fade' = [pending |-> TRUE, loop |-> videoCues[closure.currentCueIndex + 1].loop,
              index |-> closure.currentCueIndex]
  /\ UNCHANGED <<playbackVars, cueVars, closure, press>>
  /\ DeliveryFrame

\* The fade-out ends and its callback calls onPlaybackFinished.
FadeFinished ==
  /\ OnPlayback
  /\ NoDispatch
  /\ fade.pending
  /\ handlePlaybackFinishedOf(fade)
  /\ fade' = NoFade
  /\ UNCHANGED <<closure, press>>
  /\ DeliveryFrame

\* Taps on what the last render put on the screen.
BlackoutTap ==
  /\ OnPlayback
  /\ NoDispatch
  /\ ~closure.blackout
  /\ closure.showControls
  /\ handleBlackoutOf(closure)
  /\ UNCHANGED <<closure, press, fade>>
  /\ DeliveryFrame

UnblackoutTap ==
  /\ OnPlayback
  /\ NoDispatch
  /\ closure.blackout
  /\ handleUnblackout
  /\ UNCHANGED <<closure, press, fade>>
  /\ DeliveryFrame

\* A trigger key, Escape and the two navigation keys.
DeliveryKeys == {"Enter", "Escape", "ArrowRight", "ArrowLeft"}

InitDelivery ==
  /\ mesh = DefaultMesh
  /\ historyRef = <<DefaultMesh>>
  /\ historyIndexRef = 0
  /\ canUndo = FALSE
  /\ canRedo = FALSE
  /\ meshLoaded = TRUE
  /\ InitEditor
  /\ editable = TRUE
  /\ InitHook
  /\ InitGhost
  /\ storedMesh = NoItem
  /\ storedCues = NoItem
  /\ call = NoCall
  /\ InitPlayback
  /\ videoCues \in CueLists(MaxCues - 1)
  /\ currentCueIndex = 0
  /\ mode = "playback"
  /\ platform \in {"web", "ios"}
  /\ closure = FirstRender
  /\ press = NoPress
  /\ fade = NoFade
  /\ canvas = NoCanvas

NextDelivery ==
  \/ \E key \in DeliveryKeys, bubbles \in BOOLEAN : PressKey(key, bubbles)
  \/ Deliver
  \/ Rerender
  \/ SourceEnded
  \/ FadeFinished
  \/ BlackoutTap
  \/ UnblackoutTap

SpecDelivery == InitDelivery /\ [][NextDelivery]_vars

\* ------------------------------------------- MeshWarpCanvas: render loops
\* The effect of MeshWarpCanvas, run at mount and again when mesh, videoUri,
\* width, height or gridSize change.  Every run creates its own render and
\* adds a 'play' listener calling it; render requests the next animation
\* frame for itself and stores the id in the one animationRef.  A frame is
\* the pending request of one loop: its id and the effect run whose render
\* it will call.
MaxEffects == 2
MaxFrameId == 5

\* cancelAnimationFrame(id): a request that has fired or was never made is
\* not there to cancel.
cancelAnimationFrame(frames, id) == {f \in frames : f.id # id}

CanvasStill ==
  UNCHANGED <<appVars, meshLoaded, storedMesh, editorVars, propVars, hookVars,
              appMoves, hookMoves, restVars, ghostVars, platform, closure, press, fade>>

\* The effect runs: the cleanup of the run before it, if there is one, then
\* video.addEventListener('play', () => render()) and video.play().  A
\* canvas mounted again has a new video element.
EffectRuns ==
  /\ platform = "web"
  /\ canvas.made < MaxEffects
  /\ LET e == canvas.made + 1
         mounted == canvas.effect # 0
     IN  canvas' = [canvas EXCEPT
           !.effect = e,
           !.made = e,
           !.frames = IF mounted THEN cancelAnimationFrame(@, canvas.animationRef) ELSE @,
           !.listeners = IF mounted THEN @ \cup {e} ELSE {e}]
  /\ CanvasStill

\* The video emits 'play' (it starts, resumes, or starts a new source):
\* every listener on the element calls its render, in the order added.
PlayEvent ==
  /\ canvas.effect # 0
  /\ canvas.nextId + Cardinality(canvas.listeners) - 1 <= MaxFrameId
  /\ LET rank(e) == Cardinality({x \in canvas.listeners : x <= e})
         n == Cardinality(canvas.listeners)
     IN  canvas' = [canvas EXCEPT
           !.frames = @ \cup {[id |-> canvas.nextId + rank(e) - 1, effect |-> e] :
                               e \in canvas.listeners},
           !.animationRef = canvas.nextId + n - 1,
           !.nextId = @ + n]
  /\ CanvasStill

\* An animation frame fires: render draws and requests the next frame.
FrameFires(f) ==
  /\ f \in canvas.frames
  /\ canvas.nextId <= MaxFrameId
  /\ canvas' = [canvas EXCEPT
       !.frames = (@ \ {f}) \cup {[id |-> canvas.nextId, effect |-> f.effect]},
       !.animationRef = canvas.nextId,
       !.nextId = @ + 1]
  /\ CanvasStill

\* The canvas unmounts: the cleanup of the last effect run.
Unmount ==
  /\ canvas.effect # 0
  /\ canvas' = [canvas EXCEPT
       !.effect = 0,
       !.frames = cancelAnimationFrame(@, canvas.animationRef)]
  /\ CanvasStill

\* The component before its first effect, in a browser.
InitCanvas ==
  /\ InitApp
  /\ InitEditor
  /\ editable = TRUE
  /\ InitHook
  /\ InitGhost
  /\ storedMesh = NoItem
  /\ storedCues = NoItem
  /\ call = NoCall
  /\ InitPlayback
  /\ InitCues
  /\ InitMode
  /\ platform = "web"
  /\ closure = FirstRender
  /\ press = NoPress
  /\ fade = NoFade
  /\ canvas = NoCanvas

NextCanvas ==
  \/ EffectRuns
  \/ PlayEvent
  \/ \E f \in canvas.frames : FrameFires(f)
  \/ Unmount

SpecCanvas == InitCanvas /\ [][NextCanvas]_vars

\* ------------------------------------------------------------- properties
\* Shorthands of the properties below.
Current == ArrayAt(historyRef, historyIndexRef)
Dragging == editable /\ activePointId # NULL /\ size.known
Handed(p) == updatePoint(mesh, size, activePointId, p[1], p[2])
AtNewest == historyIndexRef = Len(historyRef) - 1
Idle == activePointId = NULL
\* The point drawn within 32 pixels of the touch (squared distances).
Within32(point, sz, touchX, touchY) == RatLt(Dist2(point, sz, touchX, touchY), <<32 * 32, 1>>)
Clamped(v, hi) == IF v < 0 THEN 0 ELSE IF v > hi THEN hi ELSE v
InUnit(q) == q[2] > 0 /\ q[1] >= 0 /\ q[1] <= q[2]

\* C1: after any sequence of record, undo, redo, reset and load the history
\* is non-empty and the cursor is a valid index into it.
C1_CursorValid ==
  /\ Len(historyRef) >= 1
  /\ historyIndexRef >= 0
  /\ historyIndexRef <= Len(historyRef) - 1

\* A full history whose cursor was undone all the way back, with a saved mesh.
C1_Witness ==
  /\ Len(historyRef) = MAX_HISTORY
  /\ historyIndexRef = 0
  /\ storedMesh.present

\* C2: the history never holds more than MAX_HISTORY snapshots; after
\* MAX_HISTORY + 5 pairwise distinct meshes were recorded into a freshly
\* seeded history it holds exactly MAX_HISTORY, the oldest being the 6th
\* recorded and the newest the last recorded (App and hook alike).
C2_HistoryBound ==
  /\ Len(historyRef) <= MAX_HISTORY
  /\ Len(hookHistoryRef) <= HOOK_MAX_HISTORY
  /\ appMoves = MAX_HISTORY + 5 =>
       /\ Len(historyRef) = MAX_HISTORY
       /\ historyRef[1] = LongDragMesh(DefaultMesh, size, activePointId, 6)
       /\ historyRef[MAX_HISTORY] = LongDragMesh(DefaultMesh, size, activePointId, MAX_HISTORY + 5)
  /\ hookMoves = HOOK_MAX_HISTORY + 5 =>
       /\ Len(hookHistoryRef) = HOOK_MAX_HISTORY
       /\ \E sz \in Sizes :
            /\ hookHistoryRef[1] = LongDragMesh(DefaultMesh, sz, "1-1", 6)
            /\ hookHistoryRef[HOOK_MAX_HISTORY] =
                 LongDragMesh(DefaultMesh, sz, "1-1", HOOK_MAX_HISTORY + 5)

\* Both long drags are complete.
C2_Witness ==
  /\ appMoves = MAX_HISTORY + 5
  /\ hookMoves = HOOK_MAX_HISTORY + 5

\* C3: a record of a changed mesh made below the newest snapshot discards
\* every snapshot after the cursor before appending: the new mesh is the
\* last snapshot, the cursor points at it, redo is unavailable, and undo and
\* redo only move the cursor inside the history that is left.
C3_RecordDiscardsRedoTail ==
  [][/\ \A p \in MovePositions :
          (TouchMove(p[1], p[2]) /\ Dragging /\ Handed(p) # Current /\ ~AtNewest) =>
            /\ historyRef' = Append(SubSeq(historyRef, 1, historyIndexRef + 1), Handed(p))
            /\ historyIndexRef' = Len(historyRef') - 1
            /\ mesh' = Handed(p)
            /\ ~canRedo'
     /\ (Undo \/ Redo) =>
            /\ historyRef' = historyRef
            /\ historyIndexRef' \in 0..(Len(historyRef) - 1)
            /\ mesh' = ArrayAt(historyRef, historyIndexRef')
    ]_vars

\* A move recorded while at least two snapshots lay after the cursor.
C3_Witness ==
  /\ lastOp = "move"
  /\ prevIndex < prevLen - 2
  /\ Len(historyRef) = prevIndex + 2
  /\ historyIndexRef = prevIndex + 1

\* C4: a record of a mesh deep-equal to the snapshot at the cursor changes
\* nothing: snapshots, cursor, mesh, flags and the redo tail stay.
C4_EqualMeshNotRecorded ==
  [][\A p \in MovePositions :
        (TouchMove(p[1], p[2]) /\ Dragging /\ Handed(p) = Current) => UNCHANGED appVars
    ]_vars

\* A move that handed over the current mesh while a redo tail existed.
C4_Witness ==
  /\ lastOp = "move"
  /\ activePointId # NULL
  /\ prevMesh = mesh
  /\ prevLen = Len(historyRef)
  /\ prevIndex = historyIndexRef
  /\ canRedo

\* C5: a record of a changed mesh makes it the current mesh; after a record
\* of B on top of A an undo makes the mesh A again, and a redo that follows
\* a possible undo returns to the cursor and the mesh the undo left (B).
C5_UndoRedoRoundTrip ==
  [][/\ \A p \in MovePositions :
          (TouchMove(p[1], p[2]) /\ Dragging /\ Handed(p) # Current) =>
            /\ mesh' = Handed(p)
            /\ ArrayAt(historyRef', historyIndexRef') = Handed(p)
     /\ (lastOp = "move" /\ prevMesh # mesh /\ Undo) => mesh' = prevMesh
     /\ (lastOp = "undo" /\ prevIndex # historyIndexRef /\ Redo) =>
            /\ historyIndexRef' = prevIndex
            /\ mesh' = prevMesh
            /\ historyRef' = historyRef
    ]_vars

\* A redo that followed an undo at the newest snapshot of a full history.
C5_Witness ==
  /\ lastOp = "redo"
  /\ prevIndex = historyIndexRef - 1
  /\ Len(historyRef) = MAX_HISTORY
  /\ AtNewest
  /\ prevMesh # mesh

\* C6: undo at cursor 0 and redo at the newest snapshot change nothing.
C6_UndoRedoAtEnds ==
  [][/\ (Undo /\ historyIndexRef = 0) => UNCHANGED appVars
     /\ (Redo /\ AtNewest) => UNCHANGED appVars
    ]_vars

\* An undo was attempted at cursor 0 of a history with a redo tail.
C6_Witness ==
  /\ lastOp = "undo"
  /\ prevIndex = 0
  /\ historyIndexRef = 0
  /\ Len(historyRef) > 1

\* C7: reset replaces the whole history by the single default snapshot at
\* cursor 0; undo and redo are unavailable afterwards.
C7_ResetClearsHistory ==
  [][ResetMesh =>
        /\ historyRef' = <<DefaultMesh>>
        /\ historyIndexRef' = 0
        /\ mesh' = DefaultMesh
        /\ ~canUndo'
        /\ ~canRedo'
        /\ ~UndoPossible(historyRef', historyIndexRef')
        /\ ~RedoPossible(historyRef', historyIndexRef')
    ]_vars

\* A reset of a history that held several snapshots.
C7_Witness ==
  /\ lastOp = "reset"
  /\ prevLen > 2
  /\ Len(historyRef) = 1

\* C8: the exposed flags always agree with the refs.
C8_FlagsMatchRefs ==
  /\ canUndo = (historyIndexRef > 0)
  /\ canRedo = (historyIndexRef < Len(historyRef) - 1)

\* Both flags set, in a session that loaded a saved mesh.
C8_Witness ==
  /\ canUndo
  /\ canRedo
  /\ storedMesh.present
  /\ historyRef[1] # DefaultMesh

\* C9 as stated: whenever the history is full, a successful record drops
\* the oldest snapshot and leaves the cursor at MAX_HISTORY - 1.
C9_AsStated ==
  [][\A p \in MovePositions :
        (TouchMove(p[1], p[2]) /\ Dragging /\ Handed(p) # Current
           /\ Len(historyRef) = MAX_HISTORY) =>
          /\ historyRef' = Append(Tail(historyRef), Handed(p))
          /\ historyIndexRef' = MAX_HISTORY - 1
    ]_vars

\* C9 amended: a successful record made at the newest snapshot of a full
\* history drops the oldest snapshot and leaves the cursor at
\* MAX_HISTORY - 1; every undo above cursor 0 steps back one snapshot and
\* changes the mesh, and undo at cursor 0 does nothing, so MAX_HISTORY - 1
\* undos take effect from there.
C9_FullHistoryRecord ==
  [][/\ \A p \in MovePositions :
          (TouchMove(p[1], p[2]) /\ Dragging /\ Handed(p) # Current
             /\ Len(historyRef) = MAX_HISTORY /\ AtNewest) =>
            /\ historyRef' = Append(Tail(historyRef), Handed(p))
            /\ historyIndexRef' = MAX_HISTORY - 1
            /\ Len(historyRef') = MAX_HISTORY
     /\ (Undo /\ historyIndexRef > 0) =>
            /\ historyIndexRef' = historyIndexRef - 1
            /\ mesh' # mesh
     /\ (Undo /\ historyIndexRef = 0) => mesh' = mesh
    ]_vars

\* A move recorded on a full history at its newest snapshot.
C9_Witness ==
  /\ lastOp = "move"
  /\ prevLen = MAX_HISTORY
  /\ prevIndex = MAX_HISTORY - 1
  /\ prevMesh # mesh
  /\ Len(historyRef) = MAX_HISTORY
  /\ AtNewest

\* C10: a complete drag gesture adds at most one snapshot to the history.
C10_OneEntryPerDrag ==
  [][(TouchEnd /\ activePointId # NULL) => dragEntries <= 1]_vars

C12_DragProtocol ==
  [][/\ \A p \in EditorPresses :
          (Idle /\ editable /\ size.known /\ TouchStart(p[1], p[2])) =>
            IF \E i \in 1..Len(mesh) : Within32(mesh[i], size, p[1], p[2])
              THEN \E i \in 1..Len(mesh) :
                     /\ activePointId' = mesh[i].id
                     /\ Within32(mesh[i], size, p[1], p[2])
              ELSE Idle'
     /\ \A p \in EditorPresses :
          ((~editable \/ ~size.known) /\ TouchStart(p[1], p[2])) =>
            activePointId' = activePointId
     /\ TouchEnd => Idle'
     /\ \A p \in EditorMoves :
          ((Idle \/ ~size.known \/ ~editable) /\ TouchMove(p[1], p[2])) =>
            UNCHANGED appVars
     /\ (~editable \/ ~size.known) => Idle
    ]_vars

\* Back in Idle after a drag that changed the mesh.
C12_Witness ==
  /\ Idle
  /\ editable
  /\ appMoves > 0
  /\ mesh # DefaultMesh

\* C13: a move during a drag of P emits a mesh in which only P changed, to
\* the pointer position clamped to the viewport and divided by its size;
\* number, order and ids of the points stay; every point of every mesh
\* reached has x and y in [0, 1].
C13_MoveUpdatesOnlyP ==
  /\ [](\A i \in 1..Len(mesh) : InUnit(mesh[i].x) /\ InUnit(mesh[i].y))
  /\ [][\A p \in EditorMoves :
          (Dragging /\ TouchMove(p[1], p[2])) =>
            /\ mesh' = Handed(p)
            /\ Len(mesh') = Len(mesh)
            /\ \A i \in 1..Len(mesh) :
                 /\ mesh'[i].id = mesh[i].id
                 /\ mesh[i].id # activePointId => mesh'[i] = mesh[i]
                 /\ mesh[i].id = activePointId =>
                      /\ mesh'[i].x[1] * size.width = Clamped(p[1], size.width) * mesh'[i].x[2]
                      /\ mesh'[i].y[1] * size.height = Clamped(p[2], size.height) * mesh'[i].y[2]
      ]_vars

\* A dragged point that was moved outside the viewport and clamped to its
\* bottom-left corner.
C13_Witness ==
  /\ ~Idle
  /\ \E i \in 1..Len(mesh) :
       /\ mesh[i].id = activePointId
       /\ mesh[i].x = <<0, 1>>
       /\ mesh[i].y = <<1, 1>>
       /\ mesh[i] # DefaultMesh[i]

\* C14: findNearestPoint returns the id of the point at minimum pixel
\* distance from the touch if that distance is below 32, the first such
\* point in array order on ties, and null otherwise; a touch on a point's
\* pixel position selects a point, a touch 32 or more from every point none.
C14_HitTest ==
  (call.fn = "findNearestPoint" /\ call.done) =>
    LET m == call.mesh
        D(i) == Dist2(m[i], call.size, call.touchX, call.touchY)
        hit == {i \in 1..Len(m) : RatLt(D(i), <<32 * 32, 1>>)}
    IN  /\ IF hit = {}
             THEN call.result = NULL
             ELSE \E i \in hit :
                    /\ call.result = m[i].id
                    /\ \A j \in 1..Len(m) : ~RatLt(D(j), D(i))
                    /\ \A j \in 1..(i - 1) : RatLt(D(i), D(j))
        /\ (\E i \in 1..Len(m) : D(i)[1] = 0) => call.result # NULL

\* A touch at the same distance, below 32, from two points: the first wins.
C14_Witness ==
  /\ call.fn = "findNearestPoint"
  /\ call.done
  /\ \E i, j \in 1..Len(call.mesh) :
       /\ i < j
       /\ call.result = call.mesh[i].id
       /\ Dist2(call.mesh[i], call.size, call.touchX, call.touchY)
            = Dist2(call.mesh[j], call.size, call.touchX, call.touchY)
       /\ Dist2(call.mesh[i], call.size, call.touchX, call.touchY)[1] > 0

\* C15: for rows, cols >= 2 buildDefaultMesh gives rows * cols points with
\* pairwise different ids "r-c", x = c / (cols - 1) and y = r / (rows - 1)
\* in [0, 1], and the grid shape derived from the ids is (rows, cols).
C15_GenerateGrid ==
  (call.fn = "buildDefaultMesh" /\ call.done /\ call.rows >= 2 /\ call.cols >= 2) =>
    LET m == call.result IN
    /\ call.outcome = "returned"
    /\ Len(m) = call.rows * call.cols
    /\ \A i, j \in 1..Len(m) : i # j => m[i].id # m[j].id
    /\ \A r \in 0..(call.rows - 1), c \in 0..(call.cols - 1) :
         LET pt == m[r * call.cols + c + 1] IN
         /\ pt.id = ToString(r) \o "-" \o ToString(c)
         /\ pt.x[1] * (call.cols - 1) = c * pt.x[2]
         /\ pt.y[1] * (call.rows - 1) = r * pt.y[2]
         /\ InUnit(pt.x)
         /\ InUnit(pt.y)
    /\ gridRows(m) = call.rows
    /\ gridCols(m) = call.cols

\* A grid that is not square was generated.
C15_Witness ==
  /\ call.fn = "buildDefaultMesh"
  /\ call.done
  /\ call.rows = 2
  /\ call.cols = MaxDim
  /\ Len(call.result) = 2 * MaxDim

\* C16: buildDefaultMesh fails with InvalidDimension and returns no mesh
\* when rows < 2 or cols < 2.
C16_RejectsSmallGrid ==
  (call.fn = "buildDefaultMesh" /\ call.done /\ (call.rows < 2 \/ call.cols < 2)) =>
    /\ call.outcome = "InvalidDimension"
    /\ call.result = <<>>

\* The inputs that ask for playback, for a blackout and for a cue change.
TriggerInput ==
  \/ \E key \in {" ", "Enter", "ArrowUp", "MediaPlayPause", "AudioVolumeUp",
                 "AudioVolumeDown", "VolumeUp", "VolumeDown"} : KeyPress(key)
  \/ MediaSession("play")
  \/ MediaSession("pause")
  \/ ManualTrigger
BlackoutInput == KeyPress("Escape") \/ BlackoutButton
NextInput ==
  \/ KeyPress("ArrowRight") \/ KeyPress("n") \/ KeyPress("N")
  \/ MediaSession("nexttrack")
  \/ NextButton
PrevInput ==
  \/ KeyPress("ArrowLeft") \/ KeyPress("p") \/ KeyPress("P")
  \/ MediaSession("previoustrack")
  \/ PrevButton

\* C17: a trigger in Armed outside blackout starts playback and disarms; a
\* trigger while Playing changes none of playing, armed, blackout and
\* currentCueIndex.
C17_TriggerOnce ==
  [][/\ (armed /\ ~playing /\ ~blackout /\ TriggerInput) => (playing' /\ ~armed' /\ ~blackout')
     /\ (playing /\ TriggerInput) => UNCHANGED <<playing, armed, blackout, currentCueIndex>>
     /\ armed = ~playing
    ]_vars

\* Playing after a hardware trigger on the second cue.
C17_Witness ==
  /\ lastOp = "Enter"
  /\ playing
  /\ ~armed
  /\ currentCueIndex = 1

\* C18: a completion signal while Playing returns the controller to Armed;
\* the cue cursor advances by one if the cue does not loop and a next cue
\* exists, and stays otherwise.
C18_CompletionRearms ==
  [][(playing /\ PlaybackFinished) =>
        /\ ~playing'
        /\ armed'
        /\ currentCueIndex' =
             IF ~videoCues[currentCueIndex + 1].loop /\ currentCueIndex + 1 < Len(videoCues)
               THEN currentCueIndex + 1
               ELSE currentCueIndex
        /\ videoCues' = videoCues
    ]_vars

\* A completion that advanced to the last cue of three.
C18_Witness ==
  /\ lastOp = "finished"
  /\ armed
  /\ ~playing
  /\ Len(videoCues) = 3
  /\ prevIndex = 1
  /\ currentCueIndex = 2

C20_NavigationOnlyWhenIdle ==
  [][/\ (playing /\ (NextInput \/ PrevInput)) => currentCueIndex' = currentCueIndex
     /\ (NextInput /\ currentCueIndex >= Len(videoCues) - 1) => currentCueIndex' = currentCueIndex
     /\ (PrevInput /\ currentCueIndex = 0) => currentCueIndex' = currentCueIndex
     /\ (~playing /\ NextInput /\ currentCueIndex < Len(videoCues) - 1) =>
          currentCueIndex' = currentCueIndex + 1
     /\ (~playing /\ PrevInput /\ currentCueIndex > 0) =>
          currentCueIndex' = currentCueIndex - 1
     /\ (NextInput \/ PrevInput) => UNCHANGED <<playbackVars, videoCues>>
    ]_vars

\* A next-track action that arrived during playback of the first of three
\* cues and moved nothing.
C20_Witness ==
  /\ lastOp = "nexttrack"
  /\ playing
  /\ Len(videoCues) = 3
  /\ prevIndex = 0
  /\ currentCueIndex = 0

\* C21: in every controller state the manual trigger button and a hardware
\* trigger key lead to the same successor state: a step of one handler is a
\* step of the other.
C21_ManualEqualsHardware ==
  [][/\ \A key \in TRIGGER_KEYS : KeyPress(key) => handleManualTrigger
     /\ ManualTrigger => \A key \in TRIGGER_KEYS : handleKeyPress(key)
     /\ (MediaSession("play") \/ MediaSession("pause")) => handleManualTrigger
    ]_vars

\* Playback of the second cue started with the button.
C21_Witness ==
  /\ lastOp = "manual"
  /\ playing
  /\ ~armed
  /\ ~showControls
  /\ currentCueIndex = 1

\* C22: after any sequence of add, remove, select, next, previous and
\* auto-advance currentCueIndex is a valid index into a non-empty cue list
\* and 0 with an empty one; a removal that would leave the cursor past the
\* end puts it on the last cue that remains.
C22_CueIndexValid ==
  /\ [](IF Len(videoCues) = 0
          THEN currentCueIndex = 0
          ELSE currentCueIndex >= 0 /\ currentCueIndex <= Len(videoCues) - 1)
  /\ [][\A cueId \in CueIds, writeOk \in BOOLEAN :
          (RemoveCue(cueId, writeOk) /\ currentCueIndex >= Len(videoCues')
             /\ Len(videoCues') > 0) =>
            currentCueIndex' = Len(videoCues') - 1
       ]_vars

\* The second of two cues was current when a cue was removed.
C22_Witness ==
  /\ lastOp = "remove"
  /\ prevIndex = 1
  /\ Len(videoCues) = 1
  /\ currentCueIndex = 0

\* C23: the controller leaves Playing only by a completion signal of the
\* source or a blackout input; every other step taken while Playing, a
\* trigger, a navigation input or a tap, leaves it Playing and disarmed, so
\* without a completion signal it stays Playing.
C23_PlayingUntilCompletion ==
  [][/\ (playing /\ ~playing') => (PlaybackFinished \/ BlackoutInput)
     /\ (playing /\ ~(PlaybackFinished \/ BlackoutInput)) => (playing' /\ ~armed')
     /\ playing => ~armed
    ]_vars

\* Playing on an empty playlist, where no source can signal completion,
\* after a key that is not a blackout input.
C23_Witness ==
  /\ lastOp = "ArrowRight"
  /\ playing
  /\ ~armed
  /\ ~HasVideo

\* C24: a Save that reaches storage stores the current mesh M; a load that
\* finds a stored mesh makes it the mesh and the only snapshot, at cursor 0,
\* with undo and redo unavailable, and reading back what Save wrote gives M;
\* drags, undos and redos do not touch what is stored, so a restart brings
\* back the mesh of the last Save; a Reset that reaches storage removes the
\* stored mesh, and the load after it gives the default mesh.
C24_SaveRestartRestores ==
  [][/\ SaveMeshWith(TRUE) =>
          /\ storedMesh'.present
          /\ JSONparse(storedMesh'.text) = mesh
          /\ mesh' = mesh
     /\ (~meshLoaded /\ storedMesh.present /\ LoadDataWith(TRUE)) =>
          /\ mesh' = JSONparse(storedMesh.text)
          /\ historyRef' = <<mesh'>>
          /\ historyIndexRef' = 0
          /\ ~canUndo'
          /\ ~canRedo'
     /\ (~meshLoaded /\ ~storedMesh.present /\ LoadData) =>
          /\ mesh' = DefaultMesh
          /\ historyRef' = <<DefaultMesh>>
          /\ historyIndexRef' = 0
     /\ ResetMeshWith(TRUE) => storedMesh' = NoItem
     /\ (storedMesh' # storedMesh) => (SaveMeshWith(TRUE) \/ ResetMeshWith(TRUE))
    ]_vars

\* A dragged mesh was saved and came back after a restart as the only
\* snapshot.
C24_Witness ==
  /\ meshLoaded
  /\ storedMesh.present
  /\ mesh = JSONparse(storedMesh.text)
  /\ mesh # DefaultMesh
  /\ historyRef = <<mesh>>
  /\ historyIndexRef = 0
  /\ ~canUndo
  /\ ~canRedo

\* C25: a load that finds no mesh item leaves the mesh at
\* buildDefaultMesh(4, 4) with that mesh as the only snapshot at cursor 0; a
\* load that finds no cue item leaves the cue list empty; a stored cue list
\* is loaded without a stored mesh and a stored mesh without a stored cue
\* list; every load ends with meshLoaded set.
C25_MissingItemsFallBack ==
  [][\A readOk \in BOOLEAN :
       /\ (~storedMesh.present /\ ShowLoad(readOk)) =>
            /\ mesh' = buildDefaultMesh(4, 4)
            /\ historyRef' = <<buildDefaultMesh(4, 4)>>
            /\ historyIndexRef' = 0
       /\ (~storedCues.present /\ ShowLoad(readOk)) => videoCues' = <<>>
       /\ (~storedMesh.present /\ storedCues.present /\ ~ParseThrows(storedCues)
             /\ ShowLoad(TRUE)) =>
            /\ Len(videoCues') = Len(storedCues.text)
            /\ \A i \in 1..Len(videoCues') :
                 /\ videoCues'[i].id = storedCues.text[i][2]
                 /\ videoCues'[i].loop = (storedCues.text[i][4] = "true")
       /\ (storedMesh.present /\ ~ParseThrows(storedMesh) /\ ~storedCues.present
             /\ ShowLoad(TRUE)) =>
            /\ mesh' = JSONparse(storedMesh.text)
            /\ videoCues' = <<>>
       /\ ShowLoad(readOk) => meshLoaded'
    ]_vars

\* A cue list was loaded at a launch that found no mesh.
C25_Witness ==
  /\ lastOp = "load"
  /\ meshLoaded
  /\ ~storedMesh.present
  /\ storedCues.present
  /\ Len(videoCues) = 1
  /\ mesh = DefaultMesh
  /\ historyRef = <<DefaultMesh>>

\* C26: a storage failure is absorbed: a save, reset, cue add, cue remove or
\* loop toggle whose write is rejected still changes the mesh, the history
\* and the cue list in memory; a load whose read or parse fails still ends
\* with meshLoaded set; and a stored item that cannot be parsed does not
\* keep the other item, when that one is valid, from being loaded.
C26_StorageFailureAbsorbed ==
  [][/\ ShowSave(FALSE) => (mesh' = mesh /\ ArrayAt(historyRef', historyIndexRef') = mesh)
     /\ ShowReset(FALSE) =>
          (mesh' = DefaultMesh /\ historyRef' = <<DefaultMesh>> /\ historyIndexRef' = 0)
     /\ \A id \in CueIds :
          /\ VideoSelected(id, FALSE) =>
               (videoCues' = Append(videoCues, [id |-> id, loop |-> FALSE])
                  /\ storedCues' = storedCues)
          /\ RemoveCue(id, FALSE) =>
               (Len(videoCues') = Len(videoCues) - 1
                  /\ \A i \in 1..Len(videoCues') : videoCues'[i].id # id)
          /\ ToggleCueLoop(id, FALSE) =>
               (\A i \in 1..Len(videoCues) :
                  videoCues'[i].loop = (IF videoCues[i].id = id
                                          THEN ~videoCues[i].loop
                                          ELSE videoCues[i].loop))
     /\ \A readOk \in BOOLEAN : ShowLoad(readOk) => meshLoaded'
     /\ (storedMesh.present /\ ~ParseThrows(storedMesh) /\ ParseThrows(storedCues)
           /\ ShowLoad(TRUE)) =>
          (mesh' = JSONparse(storedMesh.text) /\ videoCues' = <<>>)
     /\ (storedCues.present /\ ~ParseThrows(storedCues) /\ ParseThrows(storedMesh)
           /\ ShowLoad(TRUE)) =>
          (videoCues' = CuesParse(storedCues.text) /\ mesh' = DefaultMesh)
    ]_vars

\* What the properties of the renderer speak of: the point of a mesh with a
\* given id scaled to the canvas, the place of (r, c) in the regular grid of
\* a rows x cols mesh, and the cell (r, c) among the cells drawn.
HasPoint(m, r, c) == \E i \in 1..Len(m) : m[i].id = PointId(r, c)
PointById(m, r, c, width, height) ==
  LET p == m[CHOOSE i \in 1..Len(m) : m[i].id = PointId(r, c)]
  IN  Pixel(Frac(p.x[1] * width, p.x[2]), Frac(p.y[1] * height, p.y[2]))
GridPixel(r, c, rows, cols, width, height) ==
  Pixel(Frac(c * width, cols - 1), Frac(r * height, rows - 1))
Rendered == call.fn = "render" /\ call.done /\ call.active
DrawnCell(r, c) ==
  call.cells[CHOOSE k \in 1..Len(call.cells) :
               call.cells[k].row = r /\ call.cells[k].col = c]
CellDrawn(r, c) ==
  \E k \in 1..Len(call.cells) : call.cells[k].row = r /\ call.cells[k].col = c

\* C27: an identity mesh of any shape rows x cols, rendered at the size of
\* the source frame by a caller that passes the column count as gridSize:
\* every cell (r, c) is drawn with its source rectangle
\* [c*W/(cols-1), (c+1)*W/(cols-1)] x [r*H/(rows-1), (r+1)*H/(rows-1)] and
\* with the corners of that rectangle as its destination corners.
C27_IdentityMeshUnwarped ==
  LET m == call.mesh
      rows == gridRows(m)
      cols == gridCols(m)
      W == call.width
      H == call.height
  IN  (Rendered /\ m = buildDefaultMesh(rows, cols) /\ call.gridSize = cols
         /\ call.videoWidth = W /\ call.videoHeight = H) =>
        \A r \in 0..(rows - 2), c \in 0..(cols - 2) :
          /\ CellDrawn(r, c)
          /\ LET q == DrawnCell(r, c) IN
             /\ q.srcX = Frac(c * W, cols - 1)
             /\ q.srcY = Frac(r * H, rows - 1)
             /\ q.srcW = Frac(W, cols - 1)
             /\ q.srcH = Frac(H, rows - 1)
             /\ q.p0 = GridPixel(r, c, rows, cols, W, H)
             /\ q.p1 = GridPixel(r, c + 1, rows, cols, W, H)
             /\ q.p2 = GridPixel(r + 1, c + 1, rows, cols, W, H)
             /\ q.p3 = GridPixel(r + 1, c, rows, cols, W, H)

\* C28: for a complete rows x cols mesh, whatever the order of its points
\* in the array, every cell (r, c) is drawn with the points "r-c",
\* "r-(c+1)", "(r+1)-(c+1)" and "(r+1)-c" as its top-left, top-right,
\* bottom-right and bottom-left destination corners.
C28_CornersById ==
  LET m == call.mesh
      rows == gridRows(m)
      cols == gridCols(m)
      W == call.width
      H == call.height
  IN  (Rendered /\ Len(m) = rows * cols /\ call.gridSize = cols
         /\ \A r \in 0..(rows - 1), c \in 0..(cols - 1) : HasPoint(m, r, c)) =>
        \A r \in 0..(rows - 2), c \in 0..(cols - 2) :
          /\ CellDrawn(r, c)
          /\ LET q == DrawnCell(r, c) IN
             /\ q.p0 = PointById(m, r, c, W, H)
             /\ q.p1 = PointById(m, r, c + 1, W, H)
             /\ q.p2 = PointById(m, r + 1, c + 1, W, H)
             /\ q.p3 = PointById(m, r + 1, c, W, H)

\* C29: when a point of the grid is missing from the mesh, every cell that
\* needs it is drawn at its place in the regular grid, every other cell is
\* drawn with its mesh points, all cells are handed to the canvas also when
\* the frame is not decodable yet, and the next tick is scheduled.
C29_HoleDrawnUnwarped ==
  LET m == call.mesh
      rows == gridRows(m)
      cols == gridCols(m)
      W == call.width
      H == call.height
  IN  /\ (call.fn = "render" /\ call.done) => call.nextTick
      /\ (Rendered /\ Len(m) < rows * cols /\ call.gridSize = cols /\ rows = cols) =>
           /\ Len(call.cells) = (rows - 1) * (cols - 1)
           /\ \A r \in 0..(rows - 2), c \in 0..(cols - 2) :
                /\ CellDrawn(r, c)
                /\ LET q == DrawnCell(r, c) IN
                   IF /\ HasPoint(m, r, c)
                      /\ HasPoint(m, r, c + 1)
                      /\ HasPoint(m, r + 1, c + 1)
                      /\ HasPoint(m, r + 1, c)
                     THEN /\ q.p0 = PointById(m, r, c, W, H)
                          /\ q.p1 = PointById(m, r, c + 1, W, H)
                          /\ q.p2 = PointById(m, r + 1, c + 1, W, H)
                          /\ q.p3 = PointById(m, r + 1, c, W, H)
                     ELSE /\ q.p0 = GridPixel(r, c, rows, cols, W, H)
                          /\ q.p1 = GridPixel(r, c + 1, rows, cols, W, H)
                          /\ q.p2 = GridPixel(r + 1, c + 1, rows, cols, W, H)
                          /\ q.p3 = GridPixel(r + 1, c, rows, cols, W, H)

\* The place of point "1-1" in the default mesh, and the mesh that
\* differs from the default mesh in that point only.
P11 == CHOOSE i \in 1..Len(DefaultMesh) : DefaultMesh[i].id = "1-1"
DefaultWith11(x, y) ==
  [i \in 1..Len(DefaultMesh) |->
     IF i = P11 THEN [id |-> "1-1", x |-> x, y |-> y] ELSE DefaultMesh[i]]

C32_MeshIsSnapshotAtCursor ==
  /\ historyIndexRef \in 0..(Len(historyRef) - 1)
  /\ mesh = historyRef[historyIndexRef + 1]

\* An undo has moved the cursor off the newest snapshot, below a redo tail.
C32_Witness ==
  /\ Len(historyRef) >= 3
  /\ historyIndexRef = 1
  /\ mesh # DefaultMesh
  /\ mesh # historyRef[Len(historyRef)]

\* ------------------------------------------------------------------- C33
\* C33: in every reachable state of the playback screen armed is true
\* exactly when playing is false: never both, never neither.
C33_ArmedIffNotPlaying == armed <=> ~playing

\* A playback stopped by Escape: armed again, behind the blackout overlay.
C33_Witness ==
  /\ lastOp = "Escape"
  /\ blackout
  /\ armed
  /\ ~playing
  /\ ~showControls

\* ------------------------------------------------------------------- C36
\* C36: whenever the app is in playback mode the cue list is non-empty;
\* playback mode cannot be entered, at startup or from calibration, while
\* there are zero cues.
C36_PlaybackHasCues == mode = "playback" => Len(videoCues) > 0

\* ------------------------------------------------------------------- C31
\* C31: no playback-mode event (trigger, completion, blackout toggle, cue
\* navigation, cue selection) changes the mesh, the mesh history or its
\* cursor; in a playback session they stay what calibration left.
C31_PlaybackLeavesMesh ==
  [][mode = "playback" => UNCHANGED <<mesh, historyRef, historyIndexRef, canUndo, canRedo>>]_vars

\* A cue played to its end and auto-advanced, over an edited mesh whose
\* history still holds a redo tail.
C31_Witness ==
  /\ lastOp = "finished"
  /\ currentCueIndex = 1
  /\ mesh = DefaultMesh
  /\ historyRef = <<DefaultMesh, EditedMesh>>
  /\ historyIndexRef = 0

\* ------------------------------------------------------------------- C34
\* C34: in every reachable state blackout implies not playing, for every
\* interleaving of trigger keys, Escape toggles, blackout and unblackout
\* taps and completion callbacks, several key events handled by one handler
\* closure before the next render included.
C34_BlackoutNotPlaying == blackout => ~playing

\* ------------------------------------------------------------------- C35
\* C35: currentCueIndex is auto-advanced only by a completion signal received
\* while the controller is Playing; a completion callback that arrives when
\* it is not Playing leaves currentCueIndex unchanged.
C35_LateCompletionKeepsCue ==
  [][FadeFinished /\ ~playing => currentCueIndex' = currentCueIndex]_vars

\* ------------------------------------------------------------------- C37
\* C37: each physical key press is delivered to the playback key handler
\* exactly once on every platform, so one Escape press toggles blackout
\* exactly once and one navigation key press moves the cue cursor by at
\* most one.
C37_OneDeliveryPerPress ==
  [][press' # press /\ press'.left = 0 =>
       /\ press'.handled = 1
       /\ press'.key = "Escape" => blackout' = ~press'.blackout
       /\ currentCueIndex' - press'.index \in {-1, 0, 1}]_vars

\* ------------------------------------------------------------------- C38
\* C38: at most one render loop is active per mounted MeshWarpCanvas effect
\* however many 'play' events the video emits, and after the effect's
\* cleanup no render loop started by that effect keeps running.
C38_OneRenderLoop ==
  /\ \A e \in 1..MaxEffects : Cardinality({f \in canvas.frames : f.effect = e}) <= 1
  /\ \A f \in canvas.frames : f.effect = canvas.effect

\* ------------------------------------------------------------------- C39
\* C39: removing a cue other than the current one leaves the current cue
\* unchanged: currentCueIndex still refers to the cue with the same id; and
\* removing an id that is not in the list changes neither the cue list nor
\* currentCueIndex.
C39_RemoveKeepsCurrentCue ==
  [][\A cueId \in RemoveIds, writeOk \in BOOLEAN :
       RemoveAny(cueId, writeOk) =>
         /\ (HasVideo /\ cueId # videoCues[currentCueIndex + 1].id) =>
              /\ currentCueIndex' < Len(videoCues')
              /\ videoCues'[currentCueIndex' + 1].id = videoCues[currentCueIndex + 1].id
         /\ cueId \notin UsedIds =>
              /\ videoCues' = videoCues
              /\ currentCueIndex' = currentCueIndex]_vars
====
